---- MODULE Spec2Model ----
(* Model of the accessibility analyzer server (src/server/index.js): the     *)
(* browser pool, the /api/scan, /api/check-website and /api/test-browser     *)
(* handlers, and the pool's lifetime timers.  A handler is a sequence of     *)
(* steps; one step runs the synchronous code between two awaits.             *)
EXTENDS Integers, Sequences, FiniteSets, TLC

(***************************************************************************)
(* Program constants                                                       *)
(***************************************************************************)
MAX_CONCURRENT_BROWSERS == 5
FORCED_EXIT_DELAY == 30000      \* delay of gracefulShutdown's forced exit, ms
BROWSER_TIMEOUT == 120000
MAX_DYNAMIC_ACTIONS == 10
MAX_REPORT_AGE == 86400000
MAX_REPORTS_IN_MEMORY == 1000
SWEEP_INTERVAL == 3600000
windowMs == 900000
maxRequests == 50

(***************************************************************************)
(* Bounds of the model                                                     *)
(***************************************************************************)
PoolRequests == 6     \* requests of the pool specification SpecPool
MaxFaults == 3        \* failures the environment may inject
MaxBrandColors == 2   \* length of the brand color list of the brand color audit
MaxAudits == 2        \* size of the requested audit set in the audit inputs
MaxActions == 2       \* length of the enumerated dynamicActions lists
TimeStep == 120000    \* largest advance of the clock in one Tick (ms)
MaxTime == 240000     \* the clock stops advancing here (ms)
RateStep == 450000    \* advance of the clock in one RateTick (ms)
RateMaxTime == 900000 \* the clock of the rate limiter specification stops here
MaxOtherRequests == 1 \* requests the second client makes
MaxPosts == 2         \* reports accepted in one run of the report specification
ReportStep == 1800000 \* largest advance of the clock in one ReportTick (ms)
ReportSweeps == 1     \* sweeps the report specification runs through

VARIABLES
    browsers,      \* browserPool.browsers: the live set (browser ids)
    req,           \* the requests: each handler's inputs, locals and position
    releaseCalls,  \* browser id -> number of closeBrowser(browser) calls made
    closeCalls,    \* browser id -> number of browser.close() calls made
    closedBy,      \* browser id -> "none" | "release" | "timer" | "closeAll"
    created,       \* browser id -> time the browser entered the live set
    timerPending,  \* browsers whose setTimeout callback has not run yet
    launchCalls,   \* number of chromium.launch() calls made so far
    now,           \* Date.now()
    lighthouse,    \* TRUE iff the optional lighthouse import succeeded
    faults,        \* failures the environment may still inject
    rateLimitStore, \* client ip -> the timestamps kept for it
    admitted,      \* client ip -> timestamps of all requests passed to next()
    rejections,    \* client ip -> times at which it was answered 429
    reports,       \* the reports Map: its entries [id, report] in insertion order
    posts,         \* number of reports accepted so far in this run
    nextSweep,     \* time at which the cleanup interval fires next
    lastPost,      \* the last POST /api/report: what was sent, what was answered
    lastGet,       \* the last GET /api/report/:id: what was asked, what was answered
    lastSweep,     \* what the last cleanup run deleted
    shutdown,      \* gracefulShutdown: how far it got, and the forced exit's time
    calc           \* the brand color audit's helpers: arguments and result

vars == <<browsers, req, releaseCalls, closeCalls, closedBy, created, timerPending,
          launchCalls, now, lighthouse, faults, rateLimitStore, admitted,
          rejections, reports, posts, nextSweep, lastPost, lastGet, lastSweep,
          shutdown, calc>>

(***************************************************************************)
(* Strings are modelled by the set of substrings the code tests for.       *)
(***************************************************************************)
\* u contains t, for the substrings the code looks for
Contains(u, t) ==
    \/ u = t
    \/ u = "net::ERR_NAME_NOT_RESOLVED" /\ t = "ERR_NAME_NOT_RESOLVED"
    \/ u = "net::ERR_CONNECTION_REFUSED" /\ t = "ERR_CONNECTION_REFUSED"

\* String.prototype.includes on a message
Includes(msg, t) == \E u \in msg : Contains(u, t)

\* the substrings a target URL may carry that the handlers test messages for
UrlTexts == {{}, {"timeout"}, {"not found"}, {"refused"}, {"Invalid"}}

NavKinds == {"timeout", "dns-not-found", "connection-refused", "tls-error",
             "redirect-loop", "other"}

\* the message of the error page.goto rejects with, per failure signal
RawNavMessage(kind) ==
    CASE kind = "timeout" -> {"Timeout"}
      [] kind = "dns-not-found" -> {"net::ERR_NAME_NOT_RESOLVED"}
      [] kind = "connection-refused" -> {"net::ERR_CONNECTION_REFUSED"}
      [] kind = "tls-error" -> {"net::ERR_CERT_"}
      [] kind = "redirect-loop" -> {"net::ERR_TOO_MANY_REDIRECTS"}
      [] OTHER -> {}

\* the failure signals /api/check-website's catch block tells apart
BrowseKinds == {"timeout", "dns-not-found", "other"}

PoolExhaustedMessage == {"Maximum concurrent browsers"}

(***************************************************************************)
(* Input validation                                                        *)
(***************************************************************************)
UrlClasses == {"missing", "nonstring", "unparsable", "badprotocol", "ok"}

validateUrl(url) ==
    IF url \in {"missing", "nonstring"} THEN FALSE
    ELSE IF url = "unparsable" THEN FALSE
    ELSE IF url = "badprotocol" THEN FALSE
    ELSE TRUE

AuditKinds == {"accessibility", "performance", "seo", "best-practices", "pwa",
               "brand-color-contrast", "dynamic-content"}
LighthouseKinds == {"performance", "seo", "best-practices", "pwa"}

validateAudits(isArray, audits) ==
    IF ~isArray THEN FALSE
    ELSE {a \in audits : a \notin AuditKinds} = {}

HexDigits == {"0", "1", "2", "3", "4", "5", "6", "7", "8", "9",
              "a", "b", "c", "d", "e", "f", "A", "B", "C", "D", "E", "F"}

\* A JSON value in brandColors: a string, or an array holding one string.
\* The text is a sequence of characters.
StringValue(text) == [type |-> "string", text |-> text]
ArrayValue(text) == [type |-> "array", text |-> text]

\* ToString(value), which RegExp.prototype.test applies to its argument: an
\* array of one string converts to that string
JsToString(value) == value.text

\* /^#([A-Fa-f0-9]{6}|[A-Fa-f0-9]{3})$/.test(color)
hexPattern(color) ==
    LET str == JsToString(color)
    IN /\ Len(str) \in {4, 7}
       /\ str[1] = "#"
       /\ \A k \in 2..Len(str) : str[k] \in HexDigits

validateBrandColors(brandColors) ==
    {k \in 1..Len(brandColors) : ~hexPattern(brandColors[k])} = {}

(***************************************************************************)
(* Requests                                                                *)
(***************************************************************************)
\* shapes of one dynamic action: "click" is well formed; the others are
\* rejected before any interaction with the page
ActionShapes == {"click", "missing", "unsupported", "typeNoValue"}

ResultSlots == AuditKinds \cup {"websiteStatus"}

\* a request as it arrives: the inputs, and the handler's locals before it runs
NewRequest(ep, url, urlText, auditsIsArray, audits, brandColors, dynamicActions) ==
    [ep |-> ep, url |-> url, urlText |-> urlText,
     auditsIsArray |-> auditsIsArray, audits |-> audits,
     brandColors |-> brandColors, dynamicActions |-> dynamicActions,
     pc |-> "idle",
     browser |-> 0,          \* the handler's `browser` (0 is null)
     context |-> FALSE,      \* the `context` the catch block sees is set
     acquired |-> FALSE,     \* createBrowser returned a session to it
     i |-> 0,                \* index of the dynamic action in progress
     results |-> [k \in ResultSlots |-> "none"],
     dynamicContent |-> <<>>,
     attempted |-> {},       \* audit kinds that were started
     failed |-> {},          \* audit kinds whose run raised an error
     cause |-> "none",       \* the step whose failure ended the request
     navKind |-> "none",     \* the failure signal of the last page.goto
     attempts |-> <<>>,      \* the page.goto calls made so far, with outcome
     err |-> {},             \* message of the error the catch block holds
     status |-> 0,           \* HTTP status of the response (0: none yet)
     body |-> "none",        \* what the response carries
     sends |-> 0,            \* calls of res.json for this request
     ip |-> "client",        \* req.ip
     gate |-> "none",        \* what the rateLimit middleware did with it
     bodyIsJson |-> TRUE]    \* JSON.parse accepts the request body

DefaultScan == NewRequest("scan", "ok", {}, TRUE, {"accessibility"}, <<>>, <<>>)

White3 == StringValue(<<"#", "F", "F", "F">>)
Red6 == StringValue(<<"#", "f", "f", "0", "0", "0", "0">>)
Short2 == StringValue(<<"#", "1", "2">>)
Named == StringValue(<<"r", "e", "d">>)
Nested3 == ArrayValue(<<"#", "f", "f", "f">>)

\* n well-formed actions
RECURSIVE Clicks(_)
Clicks(n) == IF n = 0 THEN <<>> ELSE Append(Clicks(n - 1), "click")

RECURSIVE SeqsUpTo(_, _)
SeqsUpTo(S, n) ==
    IF n = 0 THEN {<<>>}
    ELSE LET shorter == SeqsUpTo(S, n - 1)
         IN shorter \cup {Append(s, x) : s \in {t \in shorter : Len(t) = n - 1}, x \in S}

\* scans that validation decides: one field varied at a time
ValidationInputs ==
    {[DefaultScan EXCEPT !.url = u] : u \in UrlClasses}
    \cup {[DefaultScan EXCEPT !.auditsIsArray = FALSE, !.audits = {}]}
    \cup {[DefaultScan EXCEPT !.audits = {"accessibility", "bogus"}]}
    \cup {[DefaultScan EXCEPT !.audits = {"brand-color-contrast"}, !.brandColors = c] :
            c \in {<<White3>>, <<Red6>>, <<Short2>>, <<White3, Named>>, <<Nested3>>}}
    \cup {[DefaultScan EXCEPT !.audits = {"dynamic-content"}, !.dynamicActions = Clicks(n)] :
            n \in {MAX_DYNAMIC_ACTIONS, MAX_DYNAMIC_ACTIONS + 1}}
    \cup {[DefaultScan EXCEPT !.url = "unparsable", !.dynamicActions = Clicks(MAX_DYNAMIC_ACTIONS + 1)]}

\* scans whose navigation outcome matters: the text of the URL varied
NavigationInputs == {[DefaultScan EXCEPT !.urlText = t] : t \in UrlTexts}

\* scans whose audits matter: the audit set, the colors and the actions varied
AuditInputs ==
    {[DefaultScan EXCEPT !.audits = a, !.brandColors = c, !.dynamicActions = d] :
        a \in {x \in SUBSET AuditKinds : Cardinality(x) <= MaxAudits},
        c \in {<<>>, <<White3>>},
        d \in SeqsUpTo({"click", "missing"}, MaxActions)}
    \cup {[DefaultScan EXCEPT !.audits = {"dynamic-content"}, !.dynamicActions = d] :
            d \in SeqsUpTo(ActionShapes, MaxActions)}
    \cup {[DefaultScan EXCEPT !.audits = AuditKinds, !.brandColors = <<White3>>,
                              !.dynamicActions = <<"click">>]}

ScanInputs == ValidationInputs \cup NavigationInputs \cup AuditInputs

CheckWebsite(url) == NewRequest("check-website", url, {}, TRUE, {}, <<>>, <<>>)
TestBrowser == NewRequest("test-browser", "ok", {}, TRUE, {}, <<>>, <<>>)

\* the quick requests of the lifecycle specification
QuickInputs == {CheckWebsite("ok"), CheckWebsite("unparsable"), TestBrowser}

Requests == DOMAIN req

(***************************************************************************)
(* Browser pool                                                            *)
(***************************************************************************)
PoolFull_OffByOne(bs) == Cardinality(bs) > MAX_CONCURRENT_BROWSERS

\* createBrowser's size check
PoolFull(bs) == Cardinality(bs) >= MAX_CONCURRENT_BROWSERS

closeBrowserGuard_Always(bs, b) == TRUE

\* closeBrowser's membership check
closeBrowserGuard(bs, b) == b \in bs

closeBrowser_ClearsLiveSet(b, who) ==
    /\ releaseCalls' = [releaseCalls EXCEPT ![b] = @ + 1]
    /\ IF closeBrowserGuard(browsers, b)
       THEN /\ browsers' = {}
            /\ closeCalls' = [closeCalls EXCEPT ![b] = @ + 1]
            /\ closedBy' = [closedBy EXCEPT ![b] = who]
       ELSE UNCHANGED <<browsers, closeCalls, closedBy>>

\* browserPool.closeBrowser(b) up to its await of browser.close()
closeBrowser(b, who) ==
    /\ releaseCalls' = [releaseCalls EXCEPT ![b] = @ + 1]
    /\ IF closeBrowserGuard(browsers, b)
       THEN /\ browsers' = browsers \ {b}
            /\ closeCalls' = [closeCalls EXCEPT ![b] = @ + 1]
            /\ closedBy' = [closedBy EXCEPT ![b] = who]
       ELSE UNCHANGED <<browsers, closeCalls, closedBy>>

\* browserPool.closeAll() up to its await: closeBrowser is called on every
\* session of a snapshot of the live set, and each call runs up to its own
\* await of browser.close()
closeAll ==
    LET snapshot == browsers
        closing == {b \in snapshot : closeBrowserGuard(browsers, b)}
    IN /\ releaseCalls' = [b \in DOMAIN releaseCalls |->
                              IF b \in snapshot THEN releaseCalls[b] + 1 ELSE releaseCalls[b]]
       /\ closeCalls' = [b \in DOMAIN closeCalls |->
                            IF b \in closing THEN closeCalls[b] + 1 ELSE closeCalls[b]]
       /\ closedBy' = [b \in DOMAIN closedBy |->
                          IF b \in closing THEN "closeAll" ELSE closedBy[b]]
       /\ browsers' = browsers \ closing

TimerGuard_Inverted(bs, b) == b \notin bs

\* the setTimeout callback's membership check
TimerGuard(bs, b) == b \in bs

(***************************************************************************)
(* Responses                                                               *)
(***************************************************************************)
\* /api/scan's catch block: status and message from the error's message
ScanErrorStatus(msg) ==
    IF Includes(msg, "timeout") \/ Includes(msg, "took too long") THEN 408
    ELSE IF Includes(msg, "not found") \/ Includes(msg, "ERR_NAME_NOT_RESOLVED") THEN 404
    ELSE IF Includes(msg, "refused") \/ Includes(msg, "ERR_CONNECTION_REFUSED") THEN 503
    ELSE IF Includes(msg, "Maximum concurrent browsers") THEN 503
    ELSE IF Includes(msg, "Invalid") THEN 400
    ELSE 500

ScanErrorBody(msg) ==
    IF Includes(msg, "timeout") \/ Includes(msg, "took too long") THEN "too-long"
    ELSE IF Includes(msg, "not found") \/ Includes(msg, "ERR_NAME_NOT_RESOLVED") THEN "not-found"
    ELSE IF Includes(msg, "refused") \/ Includes(msg, "ERR_CONNECTION_REFUSED") THEN "not-accessible"
    ELSE IF Includes(msg, "Maximum concurrent browsers") THEN "busy"
    ELSE IF Includes(msg, "Invalid") THEN "message"
    ELSE "internal"

\* /api/check-website's catch block: always answered 200, status in the body
CheckErrorBody(msg) ==
    IF Includes(msg, "timeout") THEN "slow"
    ELSE IF Includes(msg, "ERR_NAME_NOT_RESOLVED") THEN "not_found"
    ELSE "unreachable"

\* res.status(status).json(body): the first call sends the response; a
\* later call for the same request finds the headers sent and changes nothing
\* the client sees
Send(q, status, body) ==
    IF q.sends = 0
    THEN [q EXCEPT !.status = status, !.body = body, !.sends = 1]
    ELSE [q EXCEPT !.sends = @ + 1]

\* the response a handler's catch block sends
RespondError(q) ==
    IF q.ep = "scan"
    THEN [Send(q, ScanErrorStatus(q.err), ScanErrorBody(q.err))
              EXCEPT !.pc = "done", !.err = {}]
    ELSE IF q.ep = "check-website"
    THEN [Send(q, 200, CheckErrorBody(q.err)) EXCEPT !.pc = "done", !.err = {}]
    ELSE [Send(q, 500, "error") EXCEPT !.pc = "done", !.err = {}]

\* the response a handler sends on its success path
RespondOk(q) ==
    IF q.ep = "scan"
    THEN [Send(q, 200, "results") EXCEPT !.pc = "done", !.browser = 0]
    ELSE [Send(q, 200, "ok") EXCEPT !.pc = "done"]

\* a 400 sent by a handler's input validation
RespondInvalid(q) ==
    [Send(q, 400, "validation") EXCEPT !.pc = "done", !.cause = "validation"]

\* the 429 the rateLimit middleware sends
RespondLimited(q) ==
    [Send(q, 429, "too-many-requests") EXCEPT !.pc = "done", !.cause = "rate-limit"]

CatchRelease_NoRelease(r, q) ==
    /\ UNCHANGED <<browsers, releaseCalls, closeCalls, closedBy>>
    /\ req' = [req EXCEPT ![r] = RespondError(q)]

\* the rest of a catch block from its closeBrowser call on
CatchRelease(r, q) ==
    IF q.browser # 0
    THEN /\ closeBrowser(q.browser, "release")
         /\ req' = [req EXCEPT ![r] =
                IF closeBrowserGuard(browsers, q.browser)
                THEN [q EXCEPT !.pc = "catchClosing"]
                ELSE RespondError(q)]
    ELSE /\ UNCHANGED <<browsers, releaseCalls, closeCalls, closedBy>>
         /\ req' = [req EXCEPT ![r] = RespondError(q)]

\* a handler's catch block, entered with error message msg raised by step cause
Catch(r, q0, msg, cause) ==
    LET q == [q0 EXCEPT !.err = msg, !.cause = cause]
    IN IF q.context
       THEN /\ req' = [req EXCEPT ![r] = [q EXCEPT !.pc = "catchContext"]]
            /\ UNCHANGED <<browsers, releaseCalls, closeCalls, closedBy>>
       ELSE CatchRelease(r, q)

\* the environment makes the awaited operation fail
Fault == /\ faults > 0
         /\ faults' = faults - 1

(***************************************************************************)
(* /api/scan: the synchronous code between the awaits of the audit phase   *)
(***************************************************************************)
\* results.scanDuration is set and context.close() is awaited
EnterContextClose(q) == [q EXCEPT !.pc = "contextClose"]

LighthouseGuard_NoAvailability(q) == (q.audits \cap LighthouseKinds) # {}

\* the guard of the Lighthouse block
LighthouseGuard(q) == lighthouse /\ (q.audits \cap LighthouseKinds) # {}

EnterLighthouse(q) ==
    IF LighthouseGuard(q)
    THEN [q EXCEPT !.pc = "lighthouse",
                   !.attempted = @ \cup (q.audits \cap LighthouseKinds)]
    ELSE EnterContextClose(q)

\* the guard of the brand color block
BrandGuard(q) == "brand-color-contrast" \in q.audits /\ Len(q.brandColors) > 0

EnterBrand(q) ==
    IF BrandGuard(q)
    THEN [q EXCEPT !.pc = "brand", !.attempted = @ \cup {"brand-color-contrast"}]
    ELSE EnterLighthouse(q)

\* an action the loop body rejects before it touches the page
RejectedAction(shape) == shape \in {"missing", "unsupported", "typeNoValue"}

\* results.dynamicContent.push({action, issues}) or ({action, error}) for
\* the action in progress, and i++
PushEntry(q, outcome) ==
    [q EXCEPT !.dynamicContent =
                  Append(@, [action |-> q.dynamicActions[q.i], outcome |-> outcome]),
              !.i = @ + 1]

DynamicLoop_Break(q) ==
    IF q.i > Len(q.dynamicActions) THEN EnterBrand(q)
    ELSE IF RejectedAction(q.dynamicActions[q.i])
    THEN EnterBrand(PushEntry(q, "error"))
    ELSE [q EXCEPT !.pc = "dynamicAction"]

\* the dynamic action loop from index q.i up to its next await
RECURSIVE DynamicLoop(_)
DynamicLoop(q) ==
    IF q.i > Len(q.dynamicActions) THEN EnterBrand(q)
    ELSE IF RejectedAction(q.dynamicActions[q.i])
    THEN DynamicLoop(PushEntry(q, "error"))
    ELSE [q EXCEPT !.pc = "dynamicAction"]

DynamicGuard_NoLength(q) == "dynamic-content" \in q.audits

\* the guard of the dynamic content block
DynamicGuard(q) == "dynamic-content" \in q.audits /\ Len(q.dynamicActions) > 0

EnterDynamic(q) ==
    IF DynamicGuard(q)
    THEN DynamicLoop([q EXCEPT !.results["dynamic-content"] = "list",
                               !.dynamicContent = <<>>, !.i = 1,
                               !.attempted = @ \cup {"dynamic-content"}])
    ELSE EnterBrand(q)

EnterAccessibility(q) ==
    IF "accessibility" \in q.audits
    THEN [q EXCEPT !.pc = "accessibility", !.attempted = @ \cup {"accessibility"}]
    ELSE EnterDynamic(q)

\* the error the navigation catch block throws, from the caught error's message
NavigationError(raw, urlText) ==
    IF Includes(raw, "timeout") \/ Includes(raw, "Timeout") THEN {"took too long"} \cup urlText
    ELSE IF Includes(raw, "net::ERR_NAME_NOT_RESOLVED") THEN {"not found"} \cup urlText
    ELSE IF Includes(raw, "net::ERR_CONNECTION_REFUSED") THEN {"refused"} \cup urlText
    ELSE IF Includes(raw, "net::ERR_CERT_") THEN urlText
    ELSE IF Includes(raw, "net::ERR_TOO_MANY_REDIRECTS") THEN urlText
    ELSE urlText \cup raw

\* the page.goto calls of /api/scan's navigation, in the order of the nested
\* try blocks: wait condition and timeout budget (ms)
GotoAttempts ==
    <<[waitUntil |-> "networkidle", timeout |-> 45000],
      [waitUntil |-> "domcontentloaded", timeout |-> 30000],
      [waitUntil |-> "load", timeout |-> 20000]>>

\* page.goto number k is called
StartAttempt(q, k) ==
    [q EXCEPT !.attempts = Append(@, [waitUntil |-> GotoAttempts[k].waitUntil,
                                      timeout |-> GotoAttempts[k].timeout,
                                      outcome |-> "pending"])]

\* the page.goto in progress settles: outcome is "ok" or "failed", kind the
\* failure signal of the error it rejected with ("none" if it resolved)
EndAttempt(q, outcome, kind) ==
    [q EXCEPT !.attempts[Len(q.attempts)].outcome = outcome, !.navKind = kind]

(***************************************************************************)
(* Rate limiter                                                            *)
(***************************************************************************)
\* the client identities (req.ip): the second one makes few requests
Clients == {"client", "other"}

\* the paths the rateLimit middleware is mounted on; they share the store
RateLimitedPaths == {"/api/scan", "/api/gemini-suggestion"}

validRequests_NoPrune(requests, t) == requests

\* requests.filter(time => time > windowStart), windowStart = now - windowMs
validRequests(requests, t) ==
    SelectSeq(requests, LAMBDA time : time > t - windowMs)

RateLimited_OffByOne(valid) == Len(valid) > maxRequests

\* validRequests.length >= RATE_LIMIT.maxRequests
RateLimited(valid) == Len(valid) >= maxRequests

\* what the rateLimit middleware does to its store for a request of client
\* ip (admitted and rejections log its decisions)
rateLimitStep(ip) ==
    LET valid == validRequests(rateLimitStore[ip], now) IN
    IF RateLimited(valid)
    THEN /\ rejections' = [rejections EXCEPT ![ip] = @ \cup {now}]
         /\ UNCHANGED <<rateLimitStore, admitted>>
    ELSE /\ rateLimitStore' = [rateLimitStore EXCEPT ![ip] = Append(valid, now)]
         /\ admitted' = [admitted EXCEPT ![ip] = Append(@, now)]
         /\ UNCHANGED rejections

(***************************************************************************)
(* Handler steps                                                           *)
(***************************************************************************)
\* the scan handlers and the pool touch neither the rate limiter's store nor
\* the report store
ServicesUnchanged ==
    UNCHANGED <<rateLimitStore, admitted, rejections, reports, posts, nextSweep,
                lastPost, lastGet, lastSweep, shutdown, calc>>

Untimed == UNCHANGED <<created, timerPending, now, lighthouse>> /\ ServicesUnchanged
PoolUnchanged == UNCHANGED <<browsers, releaseCalls, closeCalls, closedBy>>

\* browserPool.createBrowser() up to its await of chromium.launch()
createBrowser(r, q) ==
    IF PoolFull(browsers)
    THEN /\ req' = [req EXCEPT ![r] =
                RespondError([q EXCEPT !.err = PoolExhaustedMessage, !.cause = "pool"])]
         /\ UNCHANGED launchCalls
    ELSE /\ req' = [req EXCEPT ![r] = [q EXCEPT !.pc = "launch"]]
         /\ launchCalls' = launchCalls + 1

\* whether /api/scan's validation lets the request through
ScanInputValid(q) ==
    /\ validateUrl(q.url)
    /\ validateAudits(q.auditsIsArray, q.audits)
    /\ (Len(q.brandColors) > 0 => validateBrandColors(q.brandColors))
    /\ ~(Len(q.dynamicActions) > MAX_DYNAMIC_ACTIONS)

\* POST /api/scan with a JSON body: the rateLimit middleware mounted on
\* /api/scan, then the handler up to its first await
ScanStart(r) ==
    LET q == req[r] IN
    /\ q.ep = "scan" /\ q.pc = "idle" /\ q.bodyIsJson
    /\ rateLimitStep(q.ip)
    /\ IF RateLimited(validRequests(rateLimitStore[q.ip], now))
       THEN /\ req' = [req EXCEPT ![r] = RespondLimited([q EXCEPT !.gate = "rejected"])]
            /\ UNCHANGED launchCalls
       ELSE IF ScanInputValid(q)
       THEN createBrowser(r, [q EXCEPT !.gate = "admitted"])
       ELSE /\ req' = [req EXCEPT ![r] = RespondInvalid([q EXCEPT !.gate = "admitted"])]
            /\ UNCHANGED launchCalls
    /\ PoolUnchanged
    /\ UNCHANGED <<reports, posts, nextSweep, lastPost, lastGet, lastSweep, shutdown, calc>>
    /\ UNCHANGED <<created, timerPending, now, lighthouse, faults>>

\* POST /api/check-website with a JSON body, up to the handler's first
\* await; no rateLimit middleware is mounted on the path
CheckWebsiteStart(r) ==
    LET q == req[r] IN
    /\ q.ep = "check-website" /\ q.pc = "idle" /\ q.bodyIsJson
    /\ IF validateUrl(q.url)
       THEN createBrowser(r, q)
       ELSE req' = [req EXCEPT ![r] = RespondInvalid(q)] /\ UNCHANGED launchCalls
    /\ PoolUnchanged /\ Untimed /\ UNCHANGED faults

\* GET /api/test-browser up to its first await; no rateLimit middleware is
\* mounted on the path
TestBrowserStart(r) ==
    LET q == req[r] IN
    /\ q.ep = "test-browser" /\ q.pc = "idle"
    /\ createBrowser(r, q)
    /\ PoolUnchanged /\ Untimed /\ UNCHANGED faults

\* express.json's verify hook for a body JSON.parse rejects: it sends a 400
\* and throws; body-parser passes the error (status 403) to the error
\* handling middleware, which calls res.status(...).json(...) in its turn
JsonInvalid(r) ==
    LET q == req[r] IN
    /\ q.ep \in {"scan", "check-website"} /\ q.pc = "idle" /\ ~q.bodyIsJson
    /\ req' = [req EXCEPT ![r] =
           [Send(Send(q, 400, "invalid-json"), 403, "error")
               EXCEPT !.pc = "done", !.cause = "json"]]
    /\ PoolUnchanged /\ Untimed /\ UNCHANGED <<launchCalls, faults>>

\* chromium.launch() settles: the rest of createBrowser, then the handler
\* goes on to browser.newContext()
Launch(r) ==
    LET q == req[r] IN
    /\ q.pc = "launch"
    /\ \E ok \in BOOLEAN :
        IF ok
        THEN /\ browsers' = browsers \cup {r}
             /\ created' = [created EXCEPT ![r] = now]
             /\ timerPending' = timerPending \cup {r}
             /\ req' = [req EXCEPT ![r] =
                    [q EXCEPT !.pc = "newContext", !.browser = r, !.acquired = TRUE]]
             /\ UNCHANGED <<releaseCalls, closeCalls, closedBy, faults>>
        ELSE /\ Fault
             /\ Catch(r, q, {}, "launch")
             /\ UNCHANGED <<created, timerPending>>
    /\ UNCHANGED <<launchCalls, now, lighthouse>>
    /\ ServicesUnchanged

\* browser.newContext() settles
NewContext(r) ==
    LET q == req[r] IN
    /\ q.pc = "newContext"
    /\ \E ok \in BOOLEAN :
        IF ok
        THEN /\ req' = [req EXCEPT ![r] =
                    IF q.ep = "scan"
                    THEN [q EXCEPT !.pc = "newPage"]
                    ELSE [q EXCEPT !.pc = "browse", !.context = TRUE]]
             /\ PoolUnchanged /\ UNCHANGED faults
        ELSE Fault /\ Catch(r, q, {}, "context")
    /\ Untimed /\ UNCHANGED launchCalls

\* /api/check-website, /api/test-browser: newPage, goto and the page
\* evaluation settle
Browse(r) ==
    LET q == req[r] IN
    /\ q.pc = "browse"
    /\ \E kind \in BrowseKinds \cup {"none"} :
        IF kind = "none"
        THEN /\ req' = [req EXCEPT ![r] = [q EXCEPT !.pc = "contextClose"]]
             /\ PoolUnchanged /\ UNCHANGED faults
        ELSE /\ Fault
             /\ Catch(r, [q EXCEPT !.navKind = kind], RawNavMessage(kind), "browse")
    /\ Untimed /\ UNCHANGED launchCalls

\* /api/scan: context.newPage() settles; the first page.goto is started
NewPage(r) ==
    LET q == req[r] IN
    /\ q.pc = "newPage"
    /\ \E ok \in BOOLEAN :
        IF ok
        THEN /\ req' = [req EXCEPT ![r] =
                    [StartAttempt(q, 1) EXCEPT !.pc = "gotoNetworkIdle"]]
             /\ PoolUnchanged /\ UNCHANGED faults
        ELSE Fault /\ Catch(r, q, {}, "page")
    /\ Untimed /\ UNCHANGED launchCalls

GotoNetworkIdle_NoSettle(r) ==
    LET q == req[r] IN
    /\ q.pc = "gotoNetworkIdle"
    /\ \E kind \in NavKinds \cup {"none"} :
        IF kind = "none"
        THEN /\ req' = [req EXCEPT ![r] =
                    [EndAttempt(q, "ok", "none") EXCEPT !.pc = "inspect"]]
             /\ UNCHANGED faults
        ELSE /\ Fault
             /\ req' = [req EXCEPT ![r] =
                    [StartAttempt(EndAttempt(q, "failed", kind), 2)
                        EXCEPT !.pc = "gotoDomContentLoaded"]]
    /\ PoolUnchanged /\ Untimed /\ UNCHANGED launchCalls

\* first attempt: page.goto(url, {waitUntil: 'networkidle', timeout: 45000})
GotoNetworkIdle(r) ==
    LET q == req[r] IN
    /\ q.pc = "gotoNetworkIdle"
    /\ \E kind \in NavKinds \cup {"none"} :
        IF kind = "none"
        THEN /\ req' = [req EXCEPT ![r] =
                    [EndAttempt(q, "ok", "none") EXCEPT !.pc = "settle"]]
             /\ UNCHANGED faults
        ELSE /\ Fault
             /\ req' = [req EXCEPT ![r] =
                    [StartAttempt(EndAttempt(q, "failed", kind), 2)
                        EXCEPT !.pc = "gotoDomContentLoaded"]]
    /\ PoolUnchanged /\ Untimed /\ UNCHANGED launchCalls

GotoDomContentLoaded_NoFallback(r) ==
    LET q == req[r] IN
    /\ q.pc = "gotoDomContentLoaded"
    /\ \E kind \in NavKinds \cup {"none"} :
        IF kind = "none"
        THEN /\ req' = [req EXCEPT ![r] =
                    [EndAttempt(q, "ok", "none") EXCEPT !.pc = "settle"]]
             /\ UNCHANGED <<browsers, releaseCalls, closeCalls, closedBy, faults>>
        ELSE /\ Fault
             /\ Catch(r, EndAttempt(q, "failed", kind),
                      NavigationError(RawNavMessage(kind), q.urlText), "navigation")
    /\ UNCHANGED <<created, timerPending, now, lighthouse, launchCalls>>
    /\ ServicesUnchanged

\* second attempt: page.goto(url, {waitUntil: 'domcontentloaded', timeout: 30000})
GotoDomContentLoaded(r) ==
    LET q == req[r] IN
    /\ q.pc = "gotoDomContentLoaded"
    /\ \E kind \in NavKinds \cup {"none"} :
        IF kind = "none"
        THEN /\ req' = [req EXCEPT ![r] =
                    [EndAttempt(q, "ok", "none") EXCEPT !.pc = "settle"]]
             /\ UNCHANGED faults
        ELSE /\ Fault
             /\ req' = [req EXCEPT ![r] =
                    [StartAttempt(EndAttempt(q, "failed", kind), 3)
                        EXCEPT !.pc = "gotoLoad"]]
    /\ PoolUnchanged /\ Untimed /\ UNCHANGED launchCalls

GotoLoad_AuditAnyway(r) ==
    LET q == req[r] IN
    /\ q.pc = "gotoLoad"
    /\ \E kind \in NavKinds \cup {"none"} :
        IF kind = "none"
        THEN /\ req' = [req EXCEPT ![r] =
                    [EndAttempt(q, "ok", "none") EXCEPT !.pc = "settle"]]
             /\ UNCHANGED faults
        ELSE /\ Fault
             /\ req' = [req EXCEPT ![r] =
                    [EndAttempt(q, "failed", kind) EXCEPT !.pc = "settle",
                                                         !.cause = "navigation"]]
    /\ UNCHANGED <<browsers, releaseCalls, closeCalls, closedBy>>
    /\ UNCHANGED <<created, timerPending, now, lighthouse, launchCalls>>
    /\ ServicesUnchanged

\* third attempt: page.goto(url, {waitUntil: 'load', timeout: 20000}); its
\* failure is classified and rethrown to the handler's catch block
GotoLoad(r) ==
    LET q == req[r] IN
    /\ q.pc = "gotoLoad"
    /\ \E kind \in NavKinds \cup {"none"} :
        IF kind = "none"
        THEN /\ req' = [req EXCEPT ![r] =
                    [EndAttempt(q, "ok", "none") EXCEPT !.pc = "settle"]]
             /\ PoolUnchanged /\ UNCHANGED faults
        ELSE /\ Fault
             /\ Catch(r, EndAttempt(q, "failed", kind),
                      NavigationError(RawNavMessage(kind), q.urlText), "navigation")
    /\ Untimed /\ UNCHANGED launchCalls

\* page.waitForTimeout(2000) settles; it is inside the navigation try block
Settle(r) ==
    LET q == req[r] IN
    /\ q.pc = "settle"
    /\ \E ok \in BOOLEAN :
        IF ok
        THEN /\ req' = [req EXCEPT ![r] = [q EXCEPT !.pc = "inspect"]]
             /\ PoolUnchanged /\ UNCHANGED faults
        ELSE Fault /\ Catch(r, q, NavigationError({}, q.urlText), "settle")
    /\ Untimed /\ UNCHANGED launchCalls

Inspect_Throws(r) ==
    LET q == req[r] IN
    /\ q.pc = "inspect"
    /\ \E outcome \in {"clean", "hasError", "notLoaded"} :
        IF outcome = "notLoaded"
        THEN Fault /\ Catch(r, q, {}, "inspect")
        ELSE /\ req' = [req EXCEPT ![r] =
                    EnterAccessibility([q EXCEPT !.results["websiteStatus"] = outcome])]
             /\ UNCHANGED <<browsers, releaseCalls, closeCalls, closedBy, faults>>
    /\ UNCHANGED <<created, timerPending, now, lighthouse, launchCalls>>
    /\ ServicesUnchanged

\* page health inspection: waitForLoadState and the page evaluation settle;
\* a failure of either is caught and noted in results.websiteStatus
Inspect(r) ==
    LET q == req[r] IN
    /\ q.pc = "inspect"
    /\ \E outcome \in {"clean", "hasError", "notLoaded"} :
        /\ IF outcome = "notLoaded" THEN Fault ELSE UNCHANGED faults
        /\ req' = [req EXCEPT ![r] =
                EnterAccessibility([q EXCEPT !.results["websiteStatus"] = outcome])]
    /\ PoolUnchanged /\ Untimed /\ UNCHANGED launchCalls

Accessibility_Uncaught(r) ==
    LET q == req[r] IN
    /\ q.pc = "accessibility"
    /\ \E ok \in BOOLEAN :
        IF ok
        THEN /\ req' = [req EXCEPT ![r] =
                    EnterDynamic([q EXCEPT !.results["accessibility"] = "ok"])]
             /\ UNCHANGED <<browsers, releaseCalls, closeCalls, closedBy, faults>>
        ELSE Fault /\ Catch(r, q, {}, "accessibility")
    /\ UNCHANGED <<created, timerPending, now, lighthouse, launchCalls>>
    /\ ServicesUnchanged

\* accessibility audit: addScriptTag and axe.run settle
Accessibility(r) ==
    LET q == req[r] IN
    /\ q.pc = "accessibility"
    /\ \E ok \in BOOLEAN :
        IF ok
        THEN /\ req' = [req EXCEPT ![r] =
                    EnterDynamic([q EXCEPT !.results["accessibility"] = "ok"])]
             /\ UNCHANGED faults
        ELSE /\ Fault
             /\ req' = [req EXCEPT ![r] =
                    EnterDynamic([q EXCEPT !.results["accessibility"] = "error",
                                           !.failed = @ \cup {"accessibility"}])]
    /\ PoolUnchanged /\ Untimed /\ UNCHANGED launchCalls

\* dynamic content audit: the interaction of action q.i and the axe run
\* after it settle
DynamicAction(r) ==
    LET q == req[r] IN
    /\ q.pc = "dynamicAction"
    /\ \E ok \in BOOLEAN :
        IF ok
        THEN /\ req' = [req EXCEPT ![r] =
                    DynamicLoop(PushEntry(q, "issues"))]
             /\ UNCHANGED faults
        ELSE /\ Fault
             /\ req' = [req EXCEPT ![r] =
                    DynamicLoop([PushEntry(q, "error")
                                    EXCEPT !.failed = @ \cup {"dynamic-content"}])]
    /\ PoolUnchanged /\ Untimed /\ UNCHANGED launchCalls

\* brand color audit: the page evaluation settles
BrandColor(r) ==
    LET q == req[r] IN
    /\ q.pc = "brand"
    /\ \E ok \in BOOLEAN :
        IF ok
        THEN /\ req' = [req EXCEPT ![r] =
                    EnterLighthouse([q EXCEPT !.results["brand-color-contrast"] = "ok"])]
             /\ UNCHANGED faults
        ELSE /\ Fault
             /\ req' = [req EXCEPT ![r] =
                    EnterLighthouse([q EXCEPT !.results["brand-color-contrast"] = "error",
                                              !.failed = @ \cup {"brand-color-contrast"}])]
    /\ PoolUnchanged /\ Untimed /\ UNCHANGED launchCalls

\* the result slots after a Lighthouse run that reported the categories in present
LighthouseResults(q, present) ==
    [k \in ResultSlots |->
        IF k \in q.audits \cap LighthouseKinds \cap present THEN "ok" ELSE q.results[k]]

\* the result slots after a Lighthouse run that threw
LighthouseFailed(q) ==
    [k \in ResultSlots |->
        IF k \in q.audits \cap LighthouseKinds THEN "error" ELSE q.results[k]]

\* Lighthouse audits: lighthouse.default(...) settles
Lighthouse(r) ==
    LET q == req[r] IN
    /\ q.pc = "lighthouse"
    /\ \E ok \in BOOLEAN :
        IF ok
        THEN /\ \E present \in SUBSET (q.audits \cap LighthouseKinds) :
                  req' = [req EXCEPT ![r] =
                     EnterContextClose([q EXCEPT !.results = LighthouseResults(q, present)])]
             /\ UNCHANGED faults
        ELSE /\ Fault
             /\ req' = [req EXCEPT ![r] =
                    EnterContextClose([q EXCEPT !.results = LighthouseFailed(q),
                                                !.failed = @ \cup (q.audits \cap LighthouseKinds)])]
    /\ PoolUnchanged /\ Untimed /\ UNCHANGED launchCalls

\* success path: context.close() settles, then closeBrowser is called
ContextClose(r) ==
    LET q == req[r] IN
    /\ q.pc = "contextClose"
    /\ \E ok \in BOOLEAN :
        IF ok
        THEN /\ closeBrowser(q.browser, "release")
             /\ req' = [req EXCEPT ![r] =
                    IF closeBrowserGuard(browsers, q.browser)
                    THEN [q EXCEPT !.pc = "closing"]
                    ELSE RespondOk(q)]
             /\ UNCHANGED faults
        ELSE Fault /\ Catch(r, q, {}, "contextClose")
    /\ Untimed /\ UNCHANGED launchCalls

\* success path: browser.close() settles (an error is logged and dropped),
\* and the response is sent
Closing(r) ==
    LET q == req[r] IN
    /\ q.pc = "closing"
    /\ req' = [req EXCEPT ![r] = RespondOk(q)]
    /\ PoolUnchanged /\ Untimed /\ UNCHANGED <<launchCalls, faults>>

\* catch block: context.close() settles (an error is dropped), then
\* closeBrowser is called
CatchContext(r) ==
    LET q == req[r] IN
    /\ q.pc = "catchContext"
    /\ CatchRelease(r, q)
    /\ Untimed /\ UNCHANGED <<launchCalls, faults>>

\* catch block: browser.close() settles, and the error response is sent
CatchClosing(r) ==
    LET q == req[r] IN
    /\ q.pc = "catchClosing"
    /\ req' = [req EXCEPT ![r] = RespondError(q)]
    /\ PoolUnchanged /\ Untimed /\ UNCHANGED <<launchCalls, faults>>

(***************************************************************************)
(* Time and the lifetime timers                                            *)
(***************************************************************************)
Deadline(b) == created[b] + BROWSER_TIMEOUT

Min(a, b) == IF a <= b THEN a ELSE b

RECURSIVE MinOf(_, _)
\* the least of m and the deadlines of the timers in S
MinOf(S, m) ==
    IF S = {} THEN m
    ELSE LET b == CHOOSE x \in S : TRUE
         IN MinOf(S \ {b}, Min(m, Deadline(b)))

\* the callback createBrowser registered with setTimeout runs
TimerFire(b) ==
    /\ b \in timerPending
    /\ now >= Deadline(b)
    /\ timerPending' = timerPending \ {b}
    /\ IF TimerGuard(browsers, b)
       THEN closeBrowser(b, "timer")
       ELSE UNCHANGED <<browsers, releaseCalls, closeCalls, closedBy>>
    /\ UNCHANGED <<req, created, launchCalls, now, lighthouse, faults>>
    /\ ServicesUnchanged

\* time passes, up to the next timer that is due
Tick ==
    /\ now < MaxTime
    /\ \A b \in timerPending : now < Deadline(b)
    /\ now' = MinOf(timerPending, Min(now + TimeStep, MaxTime))
    /\ UNCHANGED <<browsers, req, releaseCalls, closeCalls, closedBy, created,
                   timerPending, launchCalls, lighthouse, faults>>
    /\ ServicesUnchanged

\* graceful shutdown closes every live session; requests still in flight
\* run on while the closes are awaited
Shutdown ==
    /\ browsers # {}
    /\ closeAll
    /\ UNCHANGED <<req, created, timerPending, launchCalls, now, lighthouse, faults>>
    /\ ServicesUnchanged

(***************************************************************************)
(* Rate limiter: the middleware on its own                                 *)
(***************************************************************************)
rateLimit_KeepsExpired(ip, path) ==
    LET valid == validRequests(rateLimitStore[ip], now) IN
    /\ ip = "other" => Len(admitted[ip]) < MaxOtherRequests
    /\ IF RateLimited(valid)
       THEN /\ rejections' = [rejections EXCEPT ![ip] = @ \cup {now}]
            /\ UNCHANGED <<rateLimitStore, admitted>>
       ELSE /\ rateLimitStore' = [rateLimitStore EXCEPT ![ip] = Append(@, now)]
            /\ admitted' = [admitted EXCEPT ![ip] = Append(@, now)]
            /\ UNCHANGED rejections
    /\ UNCHANGED <<browsers, req, releaseCalls, closeCalls, closedBy, created,
                   timerPending, launchCalls, now, lighthouse, faults, reports,
                   posts, nextSweep, lastPost, lastGet, lastSweep>>
    /\ UNCHANGED <<shutdown, calc>>

\* the rateLimit middleware runs for a request of client ip to path
rateLimit(ip, path) ==
    /\ ip = "other" => Len(admitted[ip]) < MaxOtherRequests
    /\ rateLimitStep(ip)
    /\ UNCHANGED <<browsers, req, releaseCalls, closeCalls, closedBy, created,
                   timerPending, launchCalls, now, lighthouse, faults, reports,
                   posts, nextSweep, lastPost, lastGet, lastSweep>>
    /\ UNCHANGED <<shutdown, calc>>

\* time passes between requests
RateTick ==
    /\ now < RateMaxTime
    /\ now' = Min(now + RateStep, RateMaxTime)
    /\ UNCHANGED <<browsers, req, releaseCalls, closeCalls, closedBy, created,
                   timerPending, launchCalls, lighthouse, faults, rateLimitStore,
                   admitted, rejections, reports, posts, nextSweep, lastPost,
                   lastGet, lastSweep>>
    /\ UNCHANGED <<shutdown, calc>>

(***************************************************************************)
(* Report store                                                            *)
(***************************************************************************)
\* the value of the fields of a submitted report other than url: a value the
\* server sets no field to (ids are positive, times and headers are not
\* negative)
SentValue == -1

\* the fields fs of a submitted report, the url field being u
Fields(fs, u) == [f \in fs |-> IF f = "url" THEN u ELSE SentValue]

\* the text of a url field: 1 stands for a well-formed http(s) URL, any
\* other value for a text new URL() throws on
UrlClassOf(v) == IF v = 1 THEN "ok" ELSE "unparsable"

\* a request body: whether it is a non-null object, and its fields
Body(isObject, fields) == [isObject |-> isObject, fields |-> fields]

NoFields == Fields({}, 1)

\* a scan result without the fields the store sets itself
Plain == Body(TRUE, Fields({"url", "accessibility"}, 1))

\* a scan result as /api/scan returns it (it carries timestamp), with id, ip
\* and userAgent fields of its own
Colliding == Body(TRUE, Fields({"url", "accessibility", "timestamp", "id", "ip",
                                "userAgent"}, 1))

\* bodies POST /api/report rejects
NotObject == Body(FALSE, NoFields)
NoUrl == Body(TRUE, Fields({"accessibility"}, 1))
BadUrl == Body(TRUE, Fields({"url"}, 2))

ReportBodies == {Plain, Colliding, NotObject, NoUrl, BadUrl}

\* {...report, id, timestamp, userAgent, ip}: the later keys win
reportWithMetadata(report, id, t) ==
    [f \in DOMAIN report \cup {"id", "timestamp", "userAgent", "ip"} |->
        CASE f = "id" -> id
          [] f = "timestamp" -> t
          [] f = "userAgent" -> 0
          [] f = "ip" -> 0
          [] OTHER -> report[f]]

\* const { timestamp, userAgent, ip, ...cleanReport } = report
cleanReport(report) ==
    [f \in DOMAIN report \ {"timestamp", "userAgent", "ip"} |-> report[f]]

\* the ids of the reports stored before the run are at most this; the ids
\* issued in the run follow it (crypto.randomBytes: every id is fresh)
FirstId == MAX_REPORTS_IN_MEMORY

\* whether POST /api/report accepts the body
ReportValid(body) ==
    /\ body.isObject
    /\ "url" \in DOMAIN body.fields
    /\ validateUrl(UrlClassOf(body.fields["url"]))

\* POST /api/report; an entry of the store is the id, the report stored
\* under it and, for the comparison with what a GET returns, the body as it
\* was sent
PostReport(body) ==
    /\ IF ReportValid(body)
       THEN /\ posts < MaxPosts
            /\ LET id == FirstId + posts + 1 IN
               /\ reports' = Append(reports,
                      [id |-> id, report |-> reportWithMetadata(body.fields, id, now),
                       sent |-> body.fields])
               /\ lastPost' = [id |-> id, status |-> 200]
            /\ posts' = posts + 1
       ELSE /\ lastPost' = [id |-> 0, status |-> 400]
            /\ UNCHANGED <<reports, posts>>
    /\ UNCHANGED <<browsers, req, releaseCalls, closeCalls, closedBy, created,
                   timerPending, launchCalls, now, lighthouse, faults,
                   rateLimitStore, admitted, rejections, nextSweep, lastGet,
                   lastSweep>>
    /\ UNCHANGED <<shutdown, calc>>

\* now - report.timestamp > CONFIG.MAX_REPORT_AGE
TooOld(e, t) == t - e.report["timestamp"] > MAX_REPORT_AGE

\* reports.get(id): the entries stored under id (none or one)
Stored(id) == SelectSeq(reports, LAMBDA e : e.id = id)

\* GET /api/report/:id; with the response are kept what was sent under the
\* id and whether the report was older than MAX_REPORT_AGE at the request
GetReport(id) ==
    /\ lastGet' =
          IF Stored(id) = <<>>
          THEN [id |-> id, status |-> 404, body |-> NoFields, tooOld |-> FALSE,
                sent |-> NoFields]
          ELSE [id |-> id, status |-> 200, body |-> cleanReport(Stored(id)[1].report),
                tooOld |-> TooOld(Stored(id)[1], now),
                sent |-> Stored(id)[1].sent]
    /\ UNCHANGED <<browsers, req, releaseCalls, closeCalls, closedBy, created,
                   timerPending, launchCalls, now, lighthouse, faults,
                   rateLimitStore, admitted, rejections, reports, posts,
                   nextSweep, lastPost, lastSweep>>
    /\ UNCHANGED <<shutdown, calc>>

\* the ids a GET is made with: one never issued, the id of the oldest report
\* stored before the run, and the ids issued in the run
GetIds == {0, 1} \cup {FirstId + k : k \in 1..posts}

\* the age step of the cleanup: what it leaves
AgeStep(rs, t) == SelectSeq(rs, LAMBDA e : ~TooOld(e, t))

\* the creation times in rs
Timestamps(rs) == {rs[i].report["timestamp"] : i \in 1..Len(rs)}

RECURSIVE SortDescending(_, _)
SortDescending(rs, ts) ==
    IF ts = {} THEN <<>>
    ELSE LET m == CHOOSE x \in ts : \A y \in ts : x >= y
         IN SelectSeq(rs, LAMBDA e : e.report["timestamp"] = m)
                \o SortDescending(rs, ts \ {m})

RECURSIVE SortAscending(_, _)
\* the entries of rs whose creation time is in ts, by ascending creation
\* time, entries of equal time in their order in rs (Array.prototype.sort is
\* stable)
SortAscending(rs, ts) ==
    IF ts = {} THEN <<>>
    ELSE LET m == CHOOSE x \in ts : \A y \in ts : x <= y
         IN SelectSeq(rs, LAMBDA e : e.report["timestamp"] = m)
                \o SortAscending(rs, ts \ {m})

sortedReports_NewestFirst(rs) == SortDescending(rs, Timestamps(rs))

\* Array.from(reports.entries()).sort((a, b) => a[1].timestamp - b[1].timestamp)
sortedReports(rs) == SortAscending(rs, Timestamps(rs))

\* sortedReports.slice(0, reports.size - CONFIG.MAX_REPORTS_IN_MEMORY)
toDelete(rs) == SubSeq(sortedReports(rs), 1, Len(rs) - MAX_REPORTS_IN_MEMORY)

\* the capacity step of the cleanup: what it leaves
CapacityStep(rs) ==
    IF Len(rs) > MAX_REPORTS_IN_MEMORY
    THEN LET ids == {toDelete(rs)[i].id : i \in 1..Len(toDelete(rs))}
         IN SelectSeq(rs, LAMBDA e : e.id \notin ids)
    ELSE rs

\* the setInterval callback of the report cleanup runs
Sweep ==
    /\ now = nextSweep
    /\ LET kept == AgeStep(reports, now) IN
       /\ reports' = CapacityStep(kept)
       /\ lastSweep' = [at |-> now,
                        aged |-> Len(reports) - Len(kept),
                        evicted |-> Len(kept) - Len(CapacityStep(kept))]
    /\ nextSweep' = nextSweep + SWEEP_INTERVAL
    /\ UNCHANGED <<browsers, req, releaseCalls, closeCalls, closedBy, created,
                   timerPending, launchCalls, now, lighthouse, faults,
                   rateLimitStore, admitted, rejections, posts, lastPost, lastGet>>
    /\ UNCHANGED <<shutdown, calc>>

\* the time of the first sweep of the report specification, and of the last
FirstSweep == MAX_REPORT_AGE + SWEEP_INTERVAL
LastSweep == MAX_REPORT_AGE + ReportSweeps * SWEEP_INTERVAL

\* time passes, up to the next sweep
ReportTick ==
    /\ now < nextSweep
    /\ nextSweep <= LastSweep
    /\ now' = Min(now + ReportStep, nextSweep)
    /\ UNCHANGED <<browsers, req, releaseCalls, closeCalls, closedBy, created,
                   timerPending, launchCalls, lighthouse, faults, rateLimitStore,
                   admitted, rejections, reports, posts, nextSweep, lastPost,
                   lastGet, lastSweep>>
    /\ UNCHANGED <<shutdown, calc>>

(***************************************************************************)
(* Brand color audit: the helpers of the page evaluation                   *)
(***************************************************************************)
\* the digits Number.prototype.toString(16) writes
Base16 == <<"0", "1", "2", "3", "4", "5", "6", "7", "8", "9",
            "a", "b", "c", "d", "e", "f">>

\* ('0' + parseInt(x).toString(16)).slice(-2) for a channel x in 0..255
ChannelHex(x) ==
    LET str == IF x < 16 THEN <<"0", Base16[x + 1]>>
               ELSE <<"0", Base16[(x \div 16) + 1], Base16[(x % 16) + 1]>>
    IN SubSeq(str, Len(str) - 1, Len(str))

\* rgbToHex(rgb) for a computed color rgb(r, g, b), given as <<r, g, b>>
rgbToHex(rgb) == <<"#">> \o ChannelHex(rgb[1]) \o ChannelHex(rgb[2]) \o ChannelHex(rgb[3])

\* brandColors.includes(hex): strict equality with one of the elements
includes(brandColors, hex) ==
    \E k \in 1..Len(brandColors) :
        brandColors[k].type = "string" /\ brandColors[k].text = hex

\* the test that makes an element with computed colors color and bg take part
\* in the contrast check (both computed colors are non-empty strings)
BrandMatch(brandColors, color, bg) ==
    includes(brandColors, rgbToHex(color)) \/ includes(brandColors, rgbToHex(bg))

\* 1.0 as a linearized channel value: channel values are kept to four decimals
ChannelScale == 10000

\* v /= 255; v <= 0.03928 ? v / 12.92 : Math.pow((v + 0.055) / 1.055, 2.4),
\* to four decimals; the power is tabulated for the sampled channel 128
Linearized(v) ==
    IF v * 100000 <= 3928 * 255
    THEN (v * ChannelScale * 100 + (255 * 1292) \div 2) \div (255 * 1292)
    ELSE CASE v = 128 -> 2159
           [] v = 255 -> ChannelScale

luminance_WrongBlue(r, g, b) ==
    1063 * Linearized(r) + 3576 * Linearized(g) + 386 * Linearized(b)

\* a[0] * 0.2126 + a[1] * 0.7152 + a[2] * 0.0722, in units of
\* 1 / (5000 * ChannelScale)
luminance(r, g, b) ==
    1063 * Linearized(r) + 3576 * Linearized(g) + 361 * Linearized(b)

\* contrast(rgb1, rgb2): the ratio (Math.max(l1, l2) + 0.05) /
\* (Math.min(l1, l2) + 0.05) as numerator and denominator; 0.05 is
\* 250 * ChannelScale in the units of luminance
contrast(rgb1, rgb2) ==
    LET l1 == luminance(rgb1[1], rgb1[2], rgb1[3])
        l2 == luminance(rgb2[1], rgb2[2], rgb2[3])
    IN [num |-> (IF l1 >= l2 THEN l1 ELSE l2) + 250 * ChannelScale,
        den |-> (IF l1 <= l2 THEN l1 ELSE l2) + 250 * ChannelScale]

\* none of the brand color audit's helpers has been called
NoCalc == [op |-> "none"]

\* brand colors that pass validateBrandColors: white in its four spellings,
\* black, red and a grey of mixed case
BrandValues ==
    {White3, Red6,
     StringValue(<<"#", "F", "F", "F", "F", "F", "F">>),
     StringValue(<<"#", "f", "f", "f">>),
     StringValue(<<"#", "f", "f", "f", "f", "f", "f">>),
     StringValue(<<"#", "0", "0", "0">>),
     StringValue(<<"#", "0", "a", "0", "A", "0", "a">>)}

\* computed colors of an element
ElementColors == {<<255, 255, 255>>, <<0, 0, 0>>, <<10, 10, 10>>, <<255, 0, 0>>}

\* channel values of the colors whose contrast is computed
SampleChannels == {0, 10, 128, 255}

BrandLists ==
    UNION {[1..n -> BrandValues] : n \in 1..MaxBrandColors}

\* the page evaluation tests an element against the requested brand colors;
\* each behaviour follows one evaluation of a helper
MatchElement ==
    \E list \in BrandLists, color \in ElementColors, bg \in ElementColors :
        /\ calc = NoCalc
        /\ validateBrandColors(list)
        /\ calc' = [op |-> "match", brandColors |-> list, color |-> color, bg |-> bg,
                    matched |-> BrandMatch(list, color, bg)]
        /\ UNCHANGED <<browsers, req, releaseCalls, closeCalls, closedBy, created,
                     timerPending, launchCalls, now, lighthouse, faults,
                     rateLimitStore, admitted, rejections, reports, posts,
                     nextSweep, lastPost, lastGet, lastSweep, shutdown>>

\* the page evaluation computes the contrast of two colors, in both orders
Contrast ==
    \E rgb1 \in SampleChannels \X SampleChannels \X SampleChannels,
       rgb2 \in SampleChannels \X SampleChannels \X SampleChannels :
        /\ calc = NoCalc
        /\ calc' = [op |-> "contrast", rgb1 |-> rgb1, rgb2 |-> rgb2,
                    ratio |-> contrast(rgb1, rgb2), swapped |-> contrast(rgb2, rgb1)]
        /\ UNCHANGED <<browsers, req, releaseCalls, closeCalls, closedBy, created,
                     timerPending, launchCalls, now, lighthouse, faults,
                     rateLimitStore, admitted, rejections, reports, posts,
                     nextSweep, lastPost, lastGet, lastSweep, shutdown>>

\* gracefulShutdown has not been called
NotShuttingDown == [phase |-> "running", deadline |-> 0, disconnected |-> {}]

\* the rate limit store and the report store after module load
InitServices ==
    /\ rateLimitStore = [ip \in Clients |-> <<>>]
    /\ admitted = [ip \in Clients |-> <<>>]
    /\ rejections = [ip \in Clients |-> {}]
    /\ reports = <<>>
    /\ posts = 0
    /\ nextSweep = SWEEP_INTERVAL
    /\ lastPost = [id |-> 0, status |-> 0]
    /\ lastGet = [id |-> 0, status |-> 0, body |-> NoFields, tooOld |-> FALSE,
                 sent |-> NoFields]
    /\ lastSweep = [at |-> 0, aged |-> 0, evicted |-> 0]
    /\ shutdown = NotShuttingDown
    /\ calc = NoCalc

(***************************************************************************)
(* Specifications                                                          *)
(***************************************************************************)
InitPoolState(ids) ==
    /\ browsers = {}
    /\ releaseCalls = [b \in ids |-> 0]
    /\ closeCalls = [b \in ids |-> 0]
    /\ closedBy = [b \in ids |-> "none"]
    /\ created = [b \in ids |-> 0]
    /\ timerPending = {}
    /\ launchCalls = 0
    /\ now = 0

\* the lifecycle specification: a scan and a quick request, the clock, the
\* timers and the shutdown
Init ==
    /\ InitPoolState(1..2)
    /\ req \in {<<a, b>> : a \in {DefaultScan}, b \in QuickInputs}
    /\ lighthouse = TRUE
    /\ faults = MaxFaults
    /\ InitServices

\* steps of /api/scan alone
ScanStep(r) ==
    \/ ScanStart(r) \/ NewPage(r)
    \/ GotoNetworkIdle(r) \/ GotoDomContentLoaded(r) \/ GotoLoad(r)
    \/ Settle(r) \/ Inspect(r) \/ Accessibility(r)

\* steps of /api/scan's optional audits
AuditStep(r) == DynamicAction(r) \/ BrandColor(r) \/ Lighthouse(r)

\* steps of /api/check-website and /api/test-browser alone
QuickStep(r) ==
    \/ CheckWebsiteStart(r) \/ TestBrowserStart(r) \/ Browse(r) \/ CatchContext(r)

\* steps the three handlers share
SharedStep(r) ==
    \/ Launch(r) \/ NewContext(r) \/ ContextClose(r) \/ Closing(r) \/ CatchClosing(r)

Next ==
    \/ \E r \in Requests : ScanStep(r) \/ QuickStep(r) \/ SharedStep(r)
    \/ \E b \in Requests : TimerFire(b)
    \/ Tick
    \/ Shutdown

Spec == Init /\ [][Next]_vars

\* a step of a request's handler
HandlerStep(r) == ScanStep(r) \/ QuickStep(r) \/ SharedStep(r)

\* the timer specification: a scan and a quick request, the clock and the
\* lifetime timers; every awaited operation settles, so a handler that can
\* take a step eventually takes one
NextTimer ==
    \/ \E r \in Requests : HandlerStep(r)
    \/ \E b \in Requests : TimerFire(b)
    \/ Tick

SpecTimer ==
    Init /\ [][NextTimer]_vars /\ WF_vars(\E r \in Requests : HandlerStep(r))

\* the pool specification: one more request than the pool admits, every
\* awaited operation succeeds, and all of it happens within the lifetime of
\* the first browser (no timer is due)
PoolInputs == <<DefaultScan, CheckWebsite("ok"), TestBrowser>>

InitPool ==
    /\ InitPoolState(1..PoolRequests)
    /\ req = [r \in 1..PoolRequests |-> PoolInputs[IF r <= 2 THEN r ELSE 3]]
    /\ lighthouse = TRUE
    /\ faults = 0
    /\ InitServices

\* requests of the same endpoint are numbered in their order of arrival
ArrivalOrder(r) ==
    req[r].pc = "idle" =>
        \A k \in 1..(r - 1) : req[k].ep = req[r].ep => req[k].pc # "idle"

NextPool ==
    \E r \in Requests :
        /\ ArrivalOrder(r)
        /\ \/ ScanStart(r) \/ CheckWebsiteStart(r) \/ TestBrowserStart(r)
           \/ Launch(r) \/ NewContext(r) \/ Browse(r) \/ NewPage(r)
           \/ GotoNetworkIdle(r) \/ Settle(r) \/ Inspect(r) \/ Accessibility(r)
           \/ ContextClose(r) \/ Closing(r)

SpecPool == InitPool /\ [][NextPool]_vars

\* the scan specification: one /api/scan request, every input
InitScan ==
    /\ InitPoolState(1..1)
    /\ req \in {<<a>> : a \in ScanInputs}
    /\ lighthouse \in BOOLEAN
    /\ faults = MaxFaults
    /\ InitServices

NextScan == \E r \in Requests : ScanStep(r) \/ AuditStep(r) \/ SharedStep(r)

SpecScan == InitScan /\ [][NextScan]_vars

\* the pair specification: two /api/scan requests that differ only in the
\* text of the target URL, the first with none of the tested substrings
InitPair ==
    /\ InitPoolState(1..2)
    /\ req \in {<<a, b>> : a \in {DefaultScan}, b \in NavigationInputs}
    /\ lighthouse = TRUE
    /\ faults = 2 * MaxFaults
    /\ InitServices

NextPair == \E r \in Requests : ScanStep(r) \/ SharedStep(r)

SpecPair == InitPair /\ [][NextPair]_vars

\* the rate specification: the requests of two clients to the rate-limited
\* paths over one window, no scan running
InitRate ==
    /\ InitPoolState({})
    /\ req = <<>>
    /\ lighthouse = TRUE
    /\ faults = 0
    /\ InitServices

NextRate ==
    \/ \E ip \in Clients, path \in RateLimitedPaths : rateLimit(ip, path)
    \/ RateTick

SpecRate == InitRate /\ [][NextRate]_vars

\* the gate specification: one request to each endpoint that acquires a
\* session, all of one client, whose window is empty or at its ceiling;
\* (maxRequests requests admitted at time 0); every awaited operation succeeds
InitGate ==
    /\ InitPoolState(1..Len(PoolInputs))
    /\ req = PoolInputs
    /\ lighthouse = TRUE
    /\ faults = 0
    /\ \E window \in {<<>>, [k \in 1..maxRequests |-> 0]} :
          /\ rateLimitStore = [ip \in Clients |-> IF ip = "client" THEN window ELSE <<>>]
          /\ admitted = [ip \in Clients |-> IF ip = "client" THEN window ELSE <<>>]
    /\ rejections = [ip \in Clients |-> {}]
    /\ reports = <<>>
    /\ posts = 0
    /\ nextSweep = SWEEP_INTERVAL
    /\ lastPost = [id |-> 0, status |-> 0]
    /\ lastGet = [id |-> 0, status |-> 0, body |-> NoFields, tooOld |-> FALSE,
                 sent |-> NoFields]
    /\ lastSweep = [at |-> 0, aged |-> 0, evicted |-> 0]
    /\ shutdown = NotShuttingDown
    /\ calc = NoCalc

SpecGate == InitGate /\ [][NextPool]_vars

\* requests of every response path: scans that validation decides, a scan of
\* every audit kind, the quick requests, and bodies that are not JSON
HttpInputs ==
    ValidationInputs
    \cup {[DefaultScan EXCEPT !.audits = AuditKinds, !.brandColors = <<White3>>,
                              !.dynamicActions = <<"click">>]}
    \cup QuickInputs
    \cup {[q EXCEPT !.bodyIsJson = FALSE] : q \in {DefaultScan, CheckWebsite("ok")}}

\* the response specification: one request, through the body parser, the
\* middleware and its handler
InitHttp ==
    /\ InitPoolState(1..1)
    /\ req \in {<<a>> : a \in HttpInputs}
    /\ lighthouse = TRUE
    /\ faults = MaxFaults
    /\ InitServices

NextHttp ==
    \E r \in Requests :
        JsonInvalid(r) \/ ScanStep(r) \/ AuditStep(r) \/ QuickStep(r) \/ SharedStep(r)

SpecHttp == InitHttp /\ [][NextHttp]_vars

\* the color specification: the helpers of the brand color audit on brand
\* color lists, element colors and sampled colors; no request is in flight
NextColors == MatchElement \/ Contrast

SpecColors == InitRate /\ [][NextColors]_vars

\* a report stored before the run under id, created at t
StoredBefore(id, t) ==
    [id |-> id, report |-> reportWithMetadata(Plain.fields, id, t),
     sent |-> Plain.fields]

\* the store at its capacity: a report created at time 0, which the sweeps up
\* to hour 24 kept (its age was not above MAX_REPORT_AGE), and reports
\* created at hour 24
FullStore ==
    <<StoredBefore(1, 0)>>
        \o [i \in 1..(MAX_REPORTS_IN_MEMORY - 1) |-> StoredBefore(i + 1, MAX_REPORT_AGE)]

\* the report specification starts half an hour before the sweep of hour 25,
\* the store empty or at its capacity
InitReports ==
    /\ browsers = {}
    /\ req = <<>>
    /\ releaseCalls = <<>>
    /\ closeCalls = <<>>
    /\ closedBy = <<>>
    /\ created = <<>>
    /\ timerPending = {}
    /\ launchCalls = 0
    /\ lighthouse = TRUE
    /\ faults = 0
    /\ rateLimitStore = [ip \in Clients |-> <<>>]
    /\ admitted = [ip \in Clients |-> <<>>]
    /\ rejections = [ip \in Clients |-> {}]
    /\ now = MAX_REPORT_AGE + ReportStep
    /\ nextSweep = FirstSweep
    /\ reports \in {<<>>, FullStore}
    /\ posts = 0
    /\ lastPost = [id |-> 0, status |-> 0]
    /\ lastGet = [id |-> 0, status |-> 0, body |-> NoFields, tooOld |-> FALSE,
                 sent |-> NoFields]
    /\ lastSweep = [at |-> 0, aged |-> 0, evicted |-> 0]
    /\ shutdown = NotShuttingDown
    /\ calc = NoCalc

NextReports ==
    \/ \E body \in ReportBodies : PostReport(body)
    \/ \E id \in GetIds : GetReport(id)
    \/ Sweep
    \/ ReportTick

SpecReports == InitReports /\ [][NextReports]_vars

(***************************************************************************)
(* Graceful shutdown                                                       *)
(***************************************************************************)
\* the process has not exited
Alive == shutdown.phase \notin {"exited0", "exited1"}

\* requests whose handler was entered and has not answered
InFlight == {r \in Requests : req[r].pc \notin {"idle", "done"}}

ShutdownFrame ==
    UNCHANGED <<created, timerPending, launchCalls, lighthouse, faults, rateLimitStore,
                admitted, rejections, posts, nextSweep, lastPost, lastGet, lastSweep,
                calc>>

\* SIGTERM or SIGINT: gracefulShutdown calls server.close(callback) and
\* arms the forced exit
Signal ==
    /\ shutdown.phase = "running"
    /\ shutdown' = [shutdown EXCEPT !.phase = "draining",
                                    !.deadline = now + FORCED_EXIT_DELAY]
    /\ UNCHANGED <<browsers, req, releaseCalls, closeCalls, closedBy, now, reports>>
    /\ ShutdownFrame

\* the client of a request in flight gives up and closes its connection; the
\* handler runs on
Disconnect(r) ==
    /\ Alive
    /\ r \in InFlight \ shutdown.disconnected
    /\ shutdown' = [shutdown EXCEPT !.disconnected = @ \cup {r}]
    /\ UNCHANGED <<browsers, req, releaseCalls, closeCalls, closedBy, now, reports>>
    /\ ShutdownFrame

\* the last connection has ended: the callback of server.close runs up to
\* its await of closeAll(); with no session to close the await resumes at
\* once, and reports.clear() and process.exit(0) follow
ServerClosed ==
    /\ shutdown.phase = "draining"
    /\ InFlight \subseteq shutdown.disconnected
    /\ closeAll
    /\ IF browsers = {}
       THEN /\ reports' = <<>>
            /\ shutdown' = [shutdown EXCEPT !.phase = "exited0"]
       ELSE /\ shutdown' = [shutdown EXCEPT !.phase = "closing"]
            /\ UNCHANGED reports
    /\ UNCHANGED <<req, now>>
    /\ ShutdownFrame

\* every browser.close() of closeAll has settled: reports.clear() and
\* process.exit(0)
BrowsersClosed ==
    /\ shutdown.phase = "closing"
    /\ reports' = <<>>
    /\ shutdown' = [shutdown EXCEPT !.phase = "exited0"]
    /\ UNCHANGED <<browsers, req, releaseCalls, closeCalls, closedBy, now>>
    /\ ShutdownFrame

\* the forced exit's timer runs: process.exit(1)
ForcedExit ==
    /\ shutdown.phase \in {"draining", "closing"}
    /\ now >= shutdown.deadline
    /\ shutdown' = [shutdown EXCEPT !.phase = "exited1"]
    /\ UNCHANGED <<browsers, req, releaseCalls, closeCalls, closedBy, now, reports>>
    /\ ShutdownFrame

\* time passes, up to the forced exit
ShutdownTick ==
    /\ shutdown.phase \in {"draining", "closing"}
    /\ now < shutdown.deadline
    /\ now' = shutdown.deadline
    /\ UNCHANGED <<browsers, req, releaseCalls, closeCalls, closedBy, reports, shutdown>>
    /\ ShutdownFrame

\* the shutdown specification: a request to each endpoint that acquires a
\* session, a stored report, and a shutdown signal at any moment; every
\* awaited operation succeeds; no request is accepted after server.close()
InitShutdown ==
    /\ InitPoolState(1..Len(PoolInputs))
    /\ req = PoolInputs
    /\ lighthouse = TRUE
    /\ faults = 0
    /\ rateLimitStore = [ip \in Clients |-> <<>>]
    /\ admitted = [ip \in Clients |-> <<>>]
    /\ rejections = [ip \in Clients |-> {}]
    /\ reports = <<StoredBefore(1, 0)>>
    /\ posts = 0
    /\ nextSweep = SWEEP_INTERVAL
    /\ lastPost = [id |-> 0, status |-> 0]
    /\ lastGet = [id |-> 0, status |-> 0, body |-> NoFields, tooOld |-> FALSE,
                 sent |-> NoFields]
    /\ lastSweep = [at |-> 0, aged |-> 0, evicted |-> 0]
    /\ shutdown = NotShuttingDown
    /\ calc = NoCalc

NextShutdown ==
    \/ \E r \in Requests :
          /\ shutdown.phase = "running"
          /\ ScanStart(r) \/ CheckWebsiteStart(r) \/ TestBrowserStart(r)
    \/ \E r \in Requests :
          /\ Alive
          /\ \/ Launch(r) \/ NewContext(r) \/ Browse(r) \/ NewPage(r)
             \/ GotoNetworkIdle(r) \/ Settle(r) \/ Inspect(r) \/ Accessibility(r)
             \/ ContextClose(r) \/ Closing(r)
    \/ \E r \in Requests : Disconnect(r)
    \/ Signal \/ ServerClosed \/ BrowsersClosed \/ ForcedExit \/ ShutdownTick

SpecShutdown == InitShutdown /\ [][NextShutdown]_vars

(***************************************************************************)
(* Claims                                                                  *)
(***************************************************************************)
\* C1: in every reachable state the live set holds at most
\* MAX_CONCURRENT_BROWSERS sessions, also while several createBrowser calls
\* are suspended in the launch.
C1_LiveSetWithinCeiling == Cardinality(browsers) <= MAX_CONCURRENT_BROWSERS

\* a request whose createBrowser call is made in this step
CallsCreateBrowser(r) ==
    /\ req[r].pc = "idle"
    /\ req'[r].pc # "idle"
    /\ req'[r].cause # "validation"

\* C2: a createBrowser call made while the live set holds exactly the
\* ceiling fails at once with the pool-exhausted error, launches no browser
\* and leaves the live set unchanged.
C2_SaturatedAcquireFails ==
    [][\A r \in Requests :
         (CallsCreateBrowser(r) /\ Cardinality(browsers) = MAX_CONCURRENT_BROWSERS)
            => /\ req'[r].pc = "done"
               /\ req'[r].cause = "pool"
               /\ ~req'[r].acquired
               /\ launchCalls' = launchCalls
               /\ browsers' = browsers]_vars

\* a request was refused by a saturated pool
C2_Witness ==
    \E r \in Requests :
        /\ req[r].cause = "pool"
        /\ Cardinality(browsers) = MAX_CONCURRENT_BROWSERS
        /\ launchCalls = MAX_CONCURRENT_BROWSERS

\* C3: closeBrowser is idempotent: however often it is called on a session
\* (by the handler, by the lifetime timer, by closeAll), the session is out
\* of the live set and its browser was closed exactly once, as after the
\* first call.
C3_ReleaseIdempotent ==
    \A b \in Requests :
        /\ closeCalls[b] <= 1
        /\ releaseCalls[b] >= 1 => (b \notin browsers /\ closeCalls[b] = 1)

\* closeBrowser was called a second time on a session the timer had removed,
\* and the handler went on to its response
C3_Witness ==
    \E b \in Requests :
        /\ releaseCalls[b] = 2
        /\ closedBy[b] = "timer"
        /\ req[b].pc = "done"

\* C4: on every path of every handler that acquired a session, the session
\* is out of the live set when the response is sent.
C4_ReleasedBeforeResponse ==
    \A r \in Requests :
        (req[r].status # 0 /\ req[r].acquired) => r \notin browsers

\* a scan whose context.close() failed after its audits, and a quick
\* request, have both answered after acquiring a session
C4_Witness ==
    /\ req[1].status = 500 /\ req[1].acquired /\ req[1].cause = "contextClose"
    /\ req[2].status # 0 /\ req[2].acquired /\ req[2].cause = "browse"

C6_HexColor(c) ==
    /\ c.type = "string"
    /\ Len(c.text) \in {4, 7}
    /\ Head(c.text) = "#"
    /\ \A k \in 2..Len(c.text) : c.text[k] \in HexDigits

\* a scan request the claim calls malformed
C6_Malformed(q) ==
    \/ q.url # "ok"
    \/ ~q.auditsIsArray
    \/ ~(q.audits \subseteq AuditKinds)
    \/ \E k \in 1..Len(q.brandColors) : ~C6_HexColor(q.brandColors[k])
    \/ Len(q.dynamicActions) > 10

\* C6: a malformed /api/scan request is answered 400, launches no browser
\* and leaves the live set unchanged.
C6_MalformedScanRejected ==
    \A r \in Requests :
        (req[r].ep = "scan" /\ C6_Malformed(req[r]))
            => /\ req[r].pc \in {"idle", "done"}
               /\ req[r].pc = "done" => req[r].status = 400
               /\ ~req[r].acquired
               /\ launchCalls = 0
               /\ browsers = {}

\* a scan whose second brand color is not a hex color was answered 400
C6_Witness ==
    \E r \in Requests :
        /\ req[r].brandColors = <<White3, Named>>
        /\ req[r].status = 400
        /\ launchCalls = 0

\* the status the error taxonomy gives each navigation failure kind
C7_StatusOfKind(kind) ==
    CASE kind = "timeout" -> 408
      [] kind = "dns-not-found" -> 404
      [] kind = "connection-refused" -> 503
      [] OTHER -> 500

\* C7: a failed /api/scan is answered with the status of its error kind:
\* 408, 404, 503, 500, 500, 500 for the navigation kinds, 503 for pool
\* exhaustion.
C7_StatusFollowsKind ==
    \A r \in Requests :
        (req[r].ep = "scan" /\ req[r].pc = "done")
            => /\ req[r].cause = "navigation" => req[r].status = C7_StatusOfKind(req[r].navKind)
               /\ req[r].cause = "pool" => req[r].status = 503

\* C8: two failed scans whose navigation failure has the same kind receive
\* the same status and message, whatever text their URLs contain.
C8_SameKindSameStatus ==
    \A r1, r2 \in Requests :
        ( /\ req[r1].ep = "scan" /\ req[r1].pc = "done" /\ req[r1].cause = "navigation"
          /\ req[r2].ep = "scan" /\ req[r2].pc = "done" /\ req[r2].cause = "navigation"
          /\ req[r1].navKind = req[r2].navKind )
            => /\ req[r1].status = req[r2].status
               /\ req[r1].body = req[r2].body

\* the steps other than audits whose failure ends a request
C9_RequestFailures ==
    {"validation", "pool", "launch", "context", "page", "navigation", "settle",
     "contextClose"}

\* the audit kinds of a request whose block is entered once the page loaded
C9_Runnable(q) ==
    {k \in q.audits :
        \/ k = "accessibility"
        \/ k = "dynamic-content" /\ Len(q.dynamicActions) > 0
        \/ k = "brand-color-contrast" /\ Len(q.brandColors) > 0
        \/ k \in LighthouseKinds /\ lighthouse}

\* the slot of kind k carries an error payload
C9_ErrorInSlot(q, k) ==
    IF k = "dynamic-content"
    THEN /\ q.results[k] = "list"
         /\ \E j \in 1..Len(q.dynamicContent) : q.dynamicContent[j].outcome = "error"
    ELSE q.results[k] = "error"

C10_HasEntry(q, k) == q.results[k] # "none"

\* C10 as stated: a scan answered 200 has an entry for every requested
\* kind, except the Lighthouse kinds when the engine is unavailable.
C10_EveryRequestedKindHasEntry ==
    \A r \in Requests :
        (req[r].ep = "scan" /\ req[r].status = 200)
            => \A k \in req[r].audits :
                  \/ k \in LighthouseKinds /\ ~lighthouse
                  \/ C10_HasEntry(req[r], k)

\* C10 as amended: a scan answered 200 has an entry for accessibility if
\* requested; for dynamic-content exactly when dynamicActions is not empty,
\* and then one entry per action; for brand-color-contrast exactly when
\* brandColors is not empty; for a Lighthouse kind never when the engine is
\* unavailable and always (an error) when its run failed.
C10_EveryRunKindHasEntry ==
    \A r \in Requests :
        (req[r].ep = "scan" /\ req[r].status = 200)
            => \A k \in req[r].audits :
                  /\ k = "accessibility" => C10_HasEntry(req[r], k)
                  /\ k = "dynamic-content"
                        => /\ C10_HasEntry(req[r], k) <=> Len(req[r].dynamicActions) > 0
                           /\ Len(req[r].dynamicContent) = Len(req[r].dynamicActions)
                  /\ k = "brand-color-contrast"
                        => (C10_HasEntry(req[r], k) <=> Len(req[r].brandColors) > 0)
                  /\ k \in LighthouseKinds
                        => /\ ~lighthouse => ~C10_HasEntry(req[r], k)
                           /\ (lighthouse /\ k \in req[r].failed)
                                 => req[r].results[k] = "error"

\* a scan that requested dynamic-content and brand-color-contrast with empty
\* lists was answered 200 without an entry for either
C10_Witness ==
    \E r \in Requests :
        /\ req[r].status = 200
        /\ req[r].audits = {"dynamic-content", "brand-color-contrast"}
        /\ req[r].dynamicActions = <<>>
        /\ req[r].brandColors = <<>>
        /\ ~C10_HasEntry(req[r], "dynamic-content")
        /\ ~C10_HasEntry(req[r], "brand-color-contrast")

\* C11: a dynamic-content audit with n >= 1 actions yields exactly n entries
\* in request order, entry i carrying action i with issues or an error; an
\* invalid or failing action yields an error entry and the actions after it
\* are still attempted.
C11_OneEntryPerAction ==
    \A r \in Requests :
        LET q == req[r] IN
        (q.ep = "scan" /\ "dynamic-content" \in q.audits /\ Len(q.dynamicActions) >= 1)
            => /\ q.pc = "dynamicAction"
                    => /\ Len(q.dynamicContent) = q.i - 1
                       /\ q.dynamicActions[q.i] = "click"
               /\ q.status = 200
                    => /\ Len(q.dynamicContent) = Len(q.dynamicActions)
                       /\ \A i \in 1..Len(q.dynamicActions) :
                            /\ q.dynamicContent[i].action = q.dynamicActions[i]
                            /\ q.dynamicContent[i].outcome \in {"issues", "error"}
                            /\ q.dynamicActions[i] \in {"missing", "unsupported", "typeNoValue"}
                                  => q.dynamicContent[i].outcome = "error"

\* an invalid first action got an error entry and the action after it ran
C11_Witness ==
    \E r \in Requests :
        /\ req[r].status = 200
        /\ req[r].dynamicActions = <<"unsupported", "click">>
        /\ req[r].dynamicContent = <<[action |-> "unsupported", outcome |-> "error"],
                                     [action |-> "click", outcome |-> "issues"]>>

\* the audit kinds other than the Lighthouse kinds whose block is entered
C12_OtherRunnable(q) ==
    {k \in q.audits :
        \/ k = "accessibility"
        \/ k = "dynamic-content" /\ Len(q.dynamicActions) > 0
        \/ k = "brand-color-contrast" /\ Len(q.brandColors) > 0}

\* C12: with Lighthouse unavailable a scan that requests Lighthouse kinds has
\* no entry for them at any time, completes with 200 unless a step outside
\* the audits fails, and runs its other kinds; with Lighthouse available and
\* its invocation failing, every requested Lighthouse kind has an error entry.
C12_LighthouseUnavailableOmitted ==
    \A r \in Requests :
        LET q == req[r] IN
        (q.ep = "scan" /\ (q.audits \cap LighthouseKinds) # {})
            => /\ ~lighthouse
                    => /\ \A k \in LighthouseKinds : q.results[k] = "none"
                       /\ q.attempted \cap LighthouseKinds = {}
                       /\ (q.pc = "done" /\ q.cause = "none")
                             => /\ q.status = 200
                                /\ q.attempted = C12_OtherRunnable(q)
               /\ (lighthouse /\ (q.failed \cap LighthouseKinds) # {})
                    => \A k \in q.audits \cap LighthouseKinds : q.results[k] = "error"

\* Lighthouse is unavailable: a scan that asked for accessibility and
\* performance was answered 200 with the first and without the second
C12_Witness ==
    \E r \in Requests :
        /\ ~lighthouse
        /\ req[r].audits = {"accessibility", "performance"}
        /\ req[r].status = 200
        /\ req[r].results["accessibility"] = "ok"
        /\ req[r].results["performance"] = "none"

\* the attempts the claim gives, in order: wait condition and budget (ms)
C13_Order ==
    <<[waitUntil |-> "networkidle", timeout |-> 45000],
      [waitUntil |-> "domcontentloaded", timeout |-> 30000],
      [waitUntil |-> "load", timeout |-> 20000]>>

C14_NoAuditAfterAbort ==
    \A r \in Requests :
        LET q == req[r] IN
        (q.ep = "scan" /\ q.cause \in {"pool", "launch", "navigation"})
            => /\ q.attempted = {}
               /\ q.failed = {}
               /\ \A k \in AuditKinds : q.results[k] = "none"
               /\ q.dynamicContent = <<>>
               /\ q.pc = "done" => (q.status # 200 /\ q.body # "results")

\* a scan that requested every audit kind was answered 404 after its
\* navigation failed, with no audit entry
C14_Witness ==
    \E r \in Requests :
        /\ req[r].audits = AuditKinds
        /\ req[r].cause = "navigation"
        /\ req[r].status = 404
        /\ req[r].attempted = {}

\* the requests of ip admitted in the window that ends at t
AdmittedInWindow(ip, t) ==
    Len(SelectSeq(admitted[ip], LAMBDA time : time > t - windowMs))

\* C15: a request of a client is admitted exactly when fewer than maxRequests
\* of its requests were admitted in the window that ends now, and is rejected
\* (429) exactly when maxRequests were: from an empty window the first
\* maxRequests requests are admitted, the next one is rejected, and a request
\* is admitted again once windowMs has passed since the admitted ones.
C15_Step ==
    \A ip \in Clients :
        /\ admitted'[ip] # admitted[ip] => AdmittedInWindow(ip, now) < maxRequests
        /\ rejections'[ip] # rejections[ip] => AdmittedInWindow(ip, now) >= maxRequests

AdmittedTimes(ip) == {admitted[ip][i] : i \in 1..Len(admitted[ip])}

C17_RoundTrip ==
    lastGet.status = 200 /\ ~lastGet.tooOld =>
        \A f \in DOMAIN lastGet.sent :
            /\ f \in DOMAIN lastGet.body
            /\ lastGet.body[f] = lastGet.sent[f]

\* a scan result carrying a timestamp was posted in the run and read back
C17_Witness ==
    /\ lastGet.status = 200
    /\ lastGet.id > FirstId
    /\ ~lastGet.tooOld
    /\ "timestamp" \in DOMAIN lastGet.sent

\* C18: a GET answers 404 for an id that was never issued and for an id
\* whose report is older than MAX_REPORT_AGE when the request is made.
C18_NotFoundWhenUnknownOrExpired ==
    lastGet.status # 0 =>
        /\ lastGet.id = 0 => lastGet.status = 404
        /\ lastGet.status = 200 => ~lastGet.tooOld

\* a GET of the never-issued id was answered 404, and a GET of a stored report
\* was made
C18_Witness == lastGet.status = 404 /\ lastGet.id = 0 /\ reports # <<>>

RECURSIVE Dropped(_, _, _, _)
\* the entries of before from position j on that are missing in after from
\* position i on, after being before with entries taken out: the first one
\* is where the two stop agreeing
Dropped(before, after, i, j) ==
    LET differ == {d \in 0..(Len(before) - j) :
                      i + d > Len(after) \/ after[i + d] # before[j + d]}
    IN IF differ = {} THEN <<>>
       ELSE LET d == CHOOSE x \in differ : \A y \in differ : x <= y
            IN <<before[j + d]>> \o Dropped(before, after, i + d, j + d + 1)

\* C19: a sweep only takes reports out of the store; it leaves none older
\* than MAX_REPORT_AGE, and of the reports not older than that it takes out
\* exactly the surplus over MAX_REPORTS_IN_MEMORY, none of them newer than a
\* report it leaves.
C19_Step ==
    nextSweep' # nextSweep =>
        LET gone == Dropped(reports, reports', 1, 1)
            surplus == SelectSeq(gone, LAMBDA e : ~TooOld(e, now))
        IN /\ Len(reports') + Len(gone) = Len(reports)
           /\ \A i \in 1..Len(reports') : ~TooOld(reports'[i], now)
           /\ Len(reports') <= MAX_REPORTS_IN_MEMORY
           /\ surplus # <<>> => Len(reports') = MAX_REPORTS_IN_MEMORY
           /\ \A a \in Timestamps(surplus), b \in Timestamps(reports') : a <= b

C19_SweepPostconditions == [][C19_Step]_vars

\* a sweep deleted a report for its age and one for the capacity, and left
\* reports of different creation times
C19_Witness ==
    /\ lastSweep.aged >= 1
    /\ lastSweep.evicted >= 1
    /\ Len(reports) = MAX_REPORTS_IN_MEMORY
    /\ Cardinality(Timestamps(reports)) >= 2

\* C20: the store never holds more than MAX_REPORTS_IN_MEMORY reports.
C20_StoreWithinCapacity == Len(reports) <= MAX_REPORTS_IN_MEMORY

\* a POST was accepted while the store held MAX_REPORTS_IN_MEMORY reports
C20_Witness ==
    /\ Len(reports) > MAX_REPORTS_IN_MEMORY
    /\ lastPost.status = 200
    /\ lastSweep.at = 0

\* the page of the scan was flagged by the inspection, or the inspection failed
C21_Flagged(q) == q.results["websiteStatus"] \in {"hasError", "notLoaded"}

C23_SaturationIsServiceBusy ==
    \A r \in Requests :
        LET q == req[r] IN
        (q.ep = "check-website" /\ q.pc = "done" /\ q.cause = "pool")
            => /\ q.status = 503
               /\ q.body # "unreachable"

\* the place of a step of /api/scan in the claimed order; the release of the
\* failure path stands where the release of the success path stands
C24_Rank(pc) ==
    CASE pc = "idle" -> 0
      [] pc = "launch" -> 1
      [] pc = "newContext" -> 2
      [] pc = "newPage" -> 3
      [] pc = "gotoNetworkIdle" -> 4
      [] pc = "gotoDomContentLoaded" -> 5
      [] pc = "gotoLoad" -> 6
      [] pc = "settle" -> 7
      [] pc = "inspect" -> 8
      [] pc = "accessibility" -> 9
      [] pc = "dynamicAction" -> 10
      [] pc = "brand" -> 11
      [] pc = "lighthouse" -> 12
      [] pc \in {"contextClose", "catchContext"} -> 13
      [] pc \in {"closing", "catchClosing"} -> 14
      [] pc = "done" -> 15

C24_AuditSteps == {"accessibility", "dynamicAction", "brand", "lighthouse"}

\* the audit block a kind belongs to, in the order of the blocks
C24_Block(k) ==
    CASE k = "accessibility" -> 1
      [] k = "dynamic-content" -> 2
      [] k = "brand-color-contrast" -> 3
      [] k \in LighthouseKinds -> 4

\* the audit kinds of q that were started and whose outcome is not recorded yet
C24_InProgress(q) ==
    {k \in q.attempted :
        \/ k \in {"accessibility", "brand-color-contrast"} /\ q.results[k] = "none"
        \/ k = "dynamic-content" /\ q.i <= Len(q.dynamicActions)
        \/ k \in LighthouseKinds /\ q.pc = "lighthouse"}

C24_Step ==
    \A r \in Requests :
        LET q == req[r]
            p == req'[r]
            n == Len(q.attempts)
        IN (q.ep = "scan" /\ p # q)
            => /\ \/ C24_Rank(p.pc) > C24_Rank(q.pc)
                  \/ q.pc = "dynamicAction" /\ p.pc = "dynamicAction" /\ p.i > q.i
               /\ p.pc = "settle"
                     => /\ q.pc \in {"gotoNetworkIdle", "gotoDomContentLoaded", "gotoLoad"}
                        /\ p.attempts[Len(p.attempts)].outcome = "ok"
               /\ p.pc = "inspect" => q.pc = "settle"
               /\ p.pc \in C24_AuditSteps
                     => /\ q.pc \in {"inspect"} \cup C24_AuditSteps
                        /\ n >= 1 /\ q.attempts[n].outcome = "ok"
               /\ q.pc \in {"idle", "launch", "newContext", "newPage", "gotoNetworkIdle",
                            "gotoDomContentLoaded", "gotoLoad", "settle"}
                     => p.attempted = {}
               /\ \A k \in p.attempted \ q.attempted :
                     /\ \A j \in q.attempted : C24_Block(j) < C24_Block(k)
                     /\ C24_InProgress(q) \subseteq {j \in q.attempted : p.results[j] # "none"
                                                        \/ j = "dynamic-content"}
               /\ \A j, k \in C24_InProgress(p) : C24_Block(j) = C24_Block(k)
               /\ p.pc = "done" /\ q.acquired => q.browser \notin browsers'

\* C24: within one /api/scan request the steps follow the order acquire,
\* load, settle, inspection, accessibility, dynamic content, brand colors,
\* external audit, release, response; no audit starts before a load attempt
\* succeeded and the settle delay elapsed; an audit starts only when the
\* audits before it have finished, so no two are in progress together.
C24_StepsTotallyOrdered == [][C24_Step]_vars

\* the last audit block of a scan that ran all four blocks is in progress
C24_Witness ==
    \E r \in Requests :
        /\ req[r].pc = "lighthouse"
        /\ {"accessibility", "dynamic-content", "brand-color-contrast"}
               \subseteq req[r].attempted
        /\ C24_InProgress(req[r]) = req[r].audits \cap LighthouseKinds

\* the timestamps of a stored window that are newer than t - windowMs
C25_Pruned(requests, t) == SelectSeq(requests, LAMBDA time : time > t - windowMs)

C25_Step ==
    \A ip \in Clients :
        LET before == rateLimitStore[ip]
            after == rateLimitStore'[ip]
            isAdmitted == admitted'[ip] # admitted[ip]
            isRejected == rejections'[ip] # rejections[ip]
        IN /\ (isAdmitted \/ isRejected)
                => /\ \A i \in 1..Len(after) : after[i] > now - windowMs
                   /\ Len(after) <= maxRequests
           /\ isAdmitted => after = Append(C25_Pruned(before, now), now)
           /\ ~isAdmitted => after = before

\* C25: after every admission check of a client the stored window holds only
\* timestamps newer than now - windowMs and at most maxRequests of them; it
\* is the pruned previous window plus now if the request was admitted, and
\* nothing was appended if it was rejected.
C25_StoredWindowPruned == [][C25_Step]_vars

\* a full window was stored, a request was rejected against it, and a later
\* admission dropped expired timestamps from it
C25_Witness ==
    /\ rejections["client"] # {}
    /\ Len(admitted["client"]) > maxRequests
    /\ Len(rateLimitStore["client"]) < Len(admitted["client"])
    /\ rateLimitStore["client"][Len(rateLimitStore["client"])] = now

\* the value of a hexadecimal digit, in either case
C26_Digit(ch) ==
    CASE ch \in {"a", "A"} -> 10 [] ch \in {"b", "B"} -> 11 [] ch \in {"c", "C"} -> 12
      [] ch \in {"d", "D"} -> 13 [] ch \in {"e", "E"} -> 14 [] ch \in {"f", "F"} -> 15
      [] OTHER -> CHOOSE n \in 0..9 : Base16[n + 1] = ch

\* the color a validated brand color text denotes: #rgb stands for #rrggbb
C26_Value(text) ==
    IF Len(text) = 4
    THEN <<17 * C26_Digit(text[2]), 17 * C26_Digit(text[3]), 17 * C26_Digit(text[4])>>
    ELSE <<16 * C26_Digit(text[2]) + C26_Digit(text[3]),
           16 * C26_Digit(text[4]) + C26_Digit(text[5]),
           16 * C26_Digit(text[6]) + C26_Digit(text[7])>>

\* C26: an element whose computed foreground or background color has the
\* value of a requested brand color is treated as matching it, whether the
\* brand color was given with 3 or 6 digits, in upper or lower case.
C26_MatchesByValue ==
    calc.op = "match"
        => (calc.matched
               <=> \E k \in 1..Len(calc.brandColors) :
                      C26_Value(calc.brandColors[k].text) \in {calc.color, calc.bg})

\* the ratio of a contrast computation is exactly n
C27_Is(ratio, n) == ratio.num = n * ratio.den

C27_White == <<255, 255, 255>>
C27_Black == <<0, 0, 0>>

\* C27: contrast is exactly 1 for white against white and 21 for white
\* against black, is symmetric in its arguments, and lies in [1, 21] for
\* every pair of colors.
C27_ContrastBoundaries ==
    calc.op = "contrast"
        => /\ (calc.rgb1 = C27_White /\ calc.rgb2 = C27_White) => C27_Is(calc.ratio, 1)
           /\ ({calc.rgb1, calc.rgb2} = {C27_White, C27_Black}) => C27_Is(calc.ratio, 21)
           /\ calc.ratio = calc.swapped
           /\ calc.ratio.den > 0
           /\ calc.ratio.num >= calc.ratio.den
           /\ calc.ratio.num <= 21 * calc.ratio.den

\* the contrast of black against white was computed, and it was 21
C27_Witness ==
    /\ calc.op = "contrast"
    /\ calc.rgb1 = C27_Black
    /\ calc.rgb2 = C27_White
    /\ C27_Is(calc.ratio, 21)

\* C22: a request calls createBrowser only after the rate limiter admitted
\* it, and while a client's window is at the ceiling no request of that
\* client to /api/scan, /api/check-website or /api/test-browser launches a
\* browser.
C22_AcquireOnlyAfterAdmission ==
    /\ \A r \in Requests :
          (req[r].pc = "launch" \/ req[r].acquired) => req[r].gate = "admitted"
    /\ \A ip \in Clients :
          (\A r \in Requests : req[r].ip = ip)
              => (Len(validRequests(rateLimitStore[ip], now)) >= maxRequests
                     => launchCalls = 0)

\* C30: every request receives exactly one response: res.json is never
\* called a second time for a request, and a request that is done was
\* answered once.
C30_ExactlyOneResponse ==
    \A r \in Requests :
        /\ req[r].sends <= 1
        /\ req[r].pc = "done" => req[r].sends = 1

\* the lifetime timer of session b runs in the step
C29_TimerStep(b) == b \in timerPending /\ b \notin timerPending'

\* the handler that acquired session b calls closeBrowser on it in the step
C29_ReleaseStep(b) == req'[b] # req[b] /\ releaseCalls'[b] # releaseCalls[b]

C29_Step ==
    \A b \in Requests :
        (C29_TimerStep(b) \/ C29_ReleaseStep(b))
            => /\ browsers' = browsers \ {b}
               /\ \A c \in Requests \ {b} :
                     /\ closeCalls'[c] = closeCalls[c]
                     /\ closedBy'[c] = closedBy[c]
                     /\ releaseCalls'[c] = releaseCalls[c]
               /\ closeCalls'[b] = closeCalls[b] + (IF b \in browsers THEN 1 ELSE 0)
               /\ closeCalls'[b] <= 1
               /\ b \notin browsers => /\ closeCalls'[b] = closeCalls[b]
                                       /\ closedBy'[b] = closedBy[b]

\* the request of session r lost it to the lifetime timer before its response
C29_Lost(r) == closedBy[r] = "timer" /\ req[r].pc # "done"

\* the request of session r was answered, once
C29_Answered(r) == req[r].pc = "done" /\ req[r].sends = 1 /\ req[r].status # 0

\* C29: a run of the lifetime timer and the handler's release each remove
\* their own session from the live set if it is still there, close it at
\* most once in all, and touch no other session; the later of the two
\* changes nothing; a request whose session the timer closed still ends with
\* a response.
C29_TimerAndReleaseIndependent ==
    /\ [][C29_Step]_vars
    /\ \A r \in {1, 2} : C29_Lost(r) ~> C29_Answered(r)

\* both orders: the timer closed the scan's session before the scan released
\* it and answered, and the timer of the quick request's session ran after
\* the handler had released it
C29_Witness ==
    /\ closedBy[1] = "timer" /\ releaseCalls[1] = 2 /\ closeCalls[1] = 1
    /\ req[1].pc = "done" /\ req[1].sends = 1
    /\ closedBy[2] = "release" /\ releaseCalls[2] = 1 /\ closeCalls[2] = 1
    /\ req[2].acquired /\ 2 \notin timerPending

\* C28: when the graceful path of the shutdown completes (exit code 0), the
\* pool's live set and the report store are both empty.
C28_GracefulExitLeavesNothing ==
    shutdown.phase = "exited0" => (browsers = {} /\ reports = <<>>)
====
